---- MODULE Spec2Model ----
(***************************************************************************)
(* Model of the chart-preview playback core: the audio managers            *)
(* (AudioManager, SilentAudioManager), the shared AudioContext registry     *)
(* and the EventSequence window index.                                      *)
(*                                                                          *)
(* Times are integer milliseconds.  audioCtx.currentTime (seconds in the    *)
(* source) is kept in milliseconds as ctxTime, so the source's "* 1000"     *)
(* and "/ 1000" conversions disappear.  performance.now() is now.           *)
(* A seek percentage is the rational num / PercentDen; a seek is explored   *)
(* only when percent * chartEndTimeMs is a whole number of milliseconds.    *)
(***************************************************************************)
EXTENDS Integers, Sequences, FiniteSets, TLC

\* ------------------------------------------------------------------ bounds
MaxTime == 5
PercentDen == 2
MaxOrphans == 2
MaxPendingPlays == 1
MaxCount == 4
MaxDrift == 1

\* ------------------------------------------------------- program constants
RESTART_SLACK_MS == 2

\* --------------------------------------------------------------- variables
VARIABLES
  now,                 \* performance.now(), ms
  audioSupported,      \* AudioContextClass !== null
  sharedContext,       \* "null" | "suspended" | "running" | "closed"
  contextsCreated,     \* how many AudioContext objects were constructed so far
  ctxTime,             \* audioCtx.currentTime, ms
  latencyMs,           \* (baseLatency + outputLatency) * 1000
  activeInstanceCount, \* SharedAudioContext.activeInstanceCount
  insts,               \* the instance slots of this run
  inputs,              \* the creation inputs of this run (sets of values)
  mgr,                 \* slot -> manager object
  orphanTimers,        \* slot -> due times of pending timeouts no field refers to
  pendingPlay,         \* slot -> number of play() calls suspended at "await resume()"
  sess,                \* slot -> bookkeeping of the current play session
  lastOp,              \* the operation performed by the last step
  events,              \* EventSequence.events
  lastPrecedingEventIndex,         \* EventSequence.lastPrecedingEventIndex (0-based, -1 = none)
  lastPrecedingEventIndexesOfType, \* EventSequence.lastPrecedingEventIndexesOfType
  queryTimes,          \* the query times of this run
  traceCap,            \* how many of the latest queries trace keeps
  trace,               \* the latest queries and their results
  noteGroups,          \* NotesManager.noteGroups: the displayed note indexes (0-based)
  noteMaterials,       \* the note types NotesManager.noteMaterials has a material for
  preview,             \* slot -> the ChartPreview built over manager mgr[slot]
  player               \* the ChartPreviewPlayer element

clockVars == <<now, audioSupported, sharedContext, contextsCreated, ctxTime, latencyMs,
               activeInstanceCount, insts, inputs, mgr, orphanTimers,
               pendingPlay, sess, lastOp>>

seqVars == <<events, lastPrecedingEventIndex, lastPrecedingEventIndexesOfType,
             queryTimes, traceCap, trace, noteGroups, noteMaterials>>

appVars == <<preview, player>>

vars == <<clockVars, seqVars, appVars>>

\* ----------------------------------------------------------------- helpers
Max2(a, b) == IF a >= b THEN a ELSE b

Min2(a, b) == IF a <= b THEN a ELSE b

Abs(a) == IF a < 0 THEN -a ELSE a

MaxOfSeq(s) == CHOOSE x \in {s[k] : k \in 1..Len(s)} : \A k \in 1..Len(s) : s[k] <= x

RemoveAt(s, k) == [j \in 1..(Len(s) - 1) |-> IF j < k THEN s[j] ELSE s[j + 1]]

NoTimer == [st |-> "null", due |-> 0]

PendingTimer(due) == [st |-> "pending", due |-> due]

\* A slot that holds no manager yet.
Absent ==
  [kind |-> "none", phase |-> "absent", listeners |-> FALSE, audioCtx |-> 0,
   startDelayMs |-> 0, fallbackAudioLengthMs |-> 0, audioLengthMs |-> 0,
   audioFiles |-> 0, audioBuffers |-> <<>>, gainNode |-> FALSE,
   _volume |-> 0, gain |-> 0,
   audioSources |-> <<>>, endedCount |-> 0,
   lastSeekChartTimeMs |-> 0, lastAudioCtxCurrentTime |-> 0,
   _isPaused |-> TRUE, endEventTimeout |-> NoTimer,
   isPaused |-> TRUE, lastResumeChartTimeMs |-> 0, lastResumeClockTimeMs |-> 0]

NoSession == [active |-> FALSE, fromPaused |-> FALSE, startNow |-> 0,
              startChart |-> 0, ends |-> 0, endAt |-> 0, endWhilePaused |-> FALSE,
              sought |-> "no", seekTarget |-> 0, pauses |-> 0,
              afterSeek |-> FALSE, startTarget |-> 0]

NoOp == [op |-> "init", inst |-> 0, wasPaused |-> TRUE, arg |-> 0]

\* ------------------------------------------------------------ AudioManager
\* get chartCurrentTimeMs
chartCurrentTimeMs(m, ctxNow, lat) ==
  IF m._isPaused
  THEN m.lastSeekChartTimeMs
  ELSE m.lastSeekChartTimeMs + (ctxNow - m.lastAudioCtxCurrentTime) - lat

chartEndTimeMs_NoFloor(m) ==
  Max2(m.startDelayMs + m.audioLengthMs, 0)

\* get chartEndTimeMs
chartEndTimeMs(m) ==
  Max2(Max2(m.startDelayMs + m.audioLengthMs, m.audioLengthMs),
       Max2(m.fallbackAudioLengthMs, 0))

\* a volume is a whole number of 1 / VolumeDen steps and a gain (a squared
\* volume) a whole number of 1 / VolumeDen^2 steps
VolumeDen == 2

\* "private _volume = 0.5"
InitialGain == (VolumeDen * VolumeDen) \div 2

\* Math.sqrt on gains: exact on the squares the setter stores, rounded down
\* to the volume grid otherwise
Sqrt(g) == CHOOSE r \in 0..g : r * r <= g /\ (r + 1) * (r + 1) > g

\* Math.max(0, Math.min(1, volume))
clampVolume(v) == Max2(0, Min2(VolumeDen, v))

setVolume_Linear(m, v) ==
  [m EXCEPT !._volume = clampVolume(v) * VolumeDen,
            !.gain = IF m.gainNode THEN clampVolume(v) * VolumeDen ELSE @]

\* set volume(v / VolumeDen)
setVolume(m, v) ==
  [m EXCEPT !._volume = clampVolume(v) * clampVolume(v),
            !.gain = IF m.gainNode THEN clampVolume(v) * clampVolume(v) ELSE @]

\* get volume, in 1 / VolumeDen steps
getVolume(m) == Sqrt(m._volume)

\* new AudioManager(audioFiles, startDelayMs, fallbackAudioLengthMs)
AudioManagerNew(files, delay, fallback) ==
  [Absent EXCEPT !.kind = "audio", !.phase = "constructed",
                 !.audioFiles = files, !.startDelayMs = delay,
                 !.fallbackAudioLengthMs = fallback,
                 !._volume = InitialGain]

\* decodeAudioFiles, all files decoded to buffers of the given durations
decodeAudioFiles(m, durations) ==
  LET calculatedLengthMs ==
        IF Len(durations) > 0 THEN MaxOfSeq(durations) ELSE 0
  IN [m EXCEPT !.audioBuffers = durations,
               !.audioLengthMs = IF calculatedLengthMs > 0
                                 THEN calculatedLengthMs
                                 ELSE m.fallbackAudioLengthMs]

stopAudioSources(m) ==
  [m EXCEPT !.audioSources = <<>>, !.gainNode = FALSE, !.gain = 0]

startAudioSources_NoResync(m, ctxNow, wallNow) ==
  LET s == stopAudioSources(m)
      audioStartOffset == s.lastSeekChartTimeMs - s.startDelayMs
      remainingMs == chartEndTimeMs(s) - s.lastSeekChartTimeMs
      timer == IF Len(s.audioBuffers) = 0
               THEN (IF remainingMs > 0
                     THEN PendingTimer(wallNow + remainingMs)
                     ELSE NoTimer)
               ELSE s.endEventTimeout
      delay == Abs(Min2(audioStartOffset, 0))
      src == [when |-> ctxNow + delay,
              offset |-> Max2(audioStartOffset, 0),
              ended |-> FALSE]
  IN [s EXCEPT !.gainNode = TRUE,
               !.gain = s._volume,
               !.endedCount = 0,
               !.endEventTimeout = timer,
               !.audioSources = [k \in 1..Len(s.audioBuffers) |-> src]]

startAudioSources_FullLength(m, ctxNow, wallNow) ==
  LET s == stopAudioSources(m)
      audioStartOffset == s.lastSeekChartTimeMs - s.startDelayMs
      remainingMs == chartEndTimeMs(s)
      timer == IF Len(s.audioBuffers) = 0
               THEN (IF remainingMs > 0
                     THEN PendingTimer(wallNow + remainingMs)
                     ELSE NoTimer)
               ELSE s.endEventTimeout
      delay == Abs(Min2(audioStartOffset, 0))
      src == [when |-> ctxNow + delay,
              offset |-> Max2(audioStartOffset, 0),
              ended |-> FALSE]
  IN [s EXCEPT !.gainNode = TRUE,
               !.gain = s._volume,
               !.endedCount = 0,
               !.endEventTimeout = timer,
               !.audioSources = [k \in 1..Len(s.audioBuffers) |-> src],
               !.lastAudioCtxCurrentTime = ctxNow]

startAudioSources_RawOffset(m, ctxNow, wallNow) ==
  LET s == stopAudioSources(m)
      audioStartOffset == s.lastSeekChartTimeMs - s.startDelayMs
      remainingMs == chartEndTimeMs(s) - s.lastSeekChartTimeMs
      timer == IF Len(s.audioBuffers) = 0
               THEN (IF remainingMs > 0
                     THEN PendingTimer(wallNow + remainingMs)
                     ELSE NoTimer)
               ELSE s.endEventTimeout
      src == [when |-> ctxNow,
              offset |-> audioStartOffset,
              ended |-> FALSE]
  IN [s EXCEPT !.gainNode = TRUE,
               !.gain = s._volume,
               !.endedCount = 0,
               !.endEventTimeout = timer,
               !.audioSources = [k \in 1..Len(s.audioBuffers) |-> src],
               !.lastAudioCtxCurrentTime = ctxNow]

startAudioSources_SharedCounter(m, ctxNow, wallNow) ==
  LET s == stopAudioSources(m)
      audioStartOffset == s.lastSeekChartTimeMs - s.startDelayMs
      remainingMs == chartEndTimeMs(s) - s.lastSeekChartTimeMs
      timer == IF Len(s.audioBuffers) = 0
               THEN (IF remainingMs > 0
                     THEN PendingTimer(wallNow + remainingMs)
                     ELSE NoTimer)
               ELSE s.endEventTimeout
      delay == Abs(Min2(audioStartOffset, 0))
      src == [when |-> ctxNow + delay,
              offset |-> Max2(audioStartOffset, 0),
              ended |-> FALSE]
  IN [s EXCEPT !.gainNode = TRUE,
               !.gain = s._volume,
               !.endEventTimeout = timer,
               !.audioSources = [k \in 1..Len(s.audioBuffers) |-> src],
               !.lastAudioCtxCurrentTime = ctxNow]

\* startAudioSources: endedCount is the closure counter of this call
startAudioSources(m, ctxNow, wallNow) ==
  LET s == stopAudioSources(m)
      audioStartOffset == s.lastSeekChartTimeMs - s.startDelayMs
      remainingMs == chartEndTimeMs(s) - s.lastSeekChartTimeMs
      timer == IF Len(s.audioBuffers) = 0
               THEN (IF remainingMs > 0
                     THEN PendingTimer(wallNow + remainingMs)
                     ELSE NoTimer)
               ELSE s.endEventTimeout
      delay == Abs(Min2(audioStartOffset, 0))
      src == [when |-> ctxNow + delay,
              offset |-> Max2(audioStartOffset, 0),
              ended |-> FALSE]
  IN [s EXCEPT !.gainNode = TRUE,
               !.gain = s._volume,
               !.endedCount = 0,
               !.endEventTimeout = timer,
               !.audioSources = [k \in 1..Len(s.audioBuffers) |-> src],
               !.lastAudioCtxCurrentTime = ctxNow]

play_StaysPaused(m, ctxNow, wallNow, lat) ==
  LET a == startAudioSources(m, ctxNow, wallNow)
      remainingMs == chartEndTimeMs(a) - chartCurrentTimeMs(a, ctxNow, lat)
  IN IF Len(a.audioBuffers) = 0 /\ a.endEventTimeout.st = "null" /\ remainingMs > 0
     THEN [a EXCEPT !.endEventTimeout = PendingTimer(wallNow + remainingMs)]
     ELSE a

\* play(), the part after the optional "await this.audioCtx.resume()"
play(m, ctxNow, wallNow, lat) ==
  LET a == [startAudioSources(m, ctxNow, wallNow) EXCEPT !._isPaused = FALSE]
      remainingMs == chartEndTimeMs(a) - chartCurrentTimeMs(a, ctxNow, lat)
  IN IF Len(a.audioBuffers) = 0 /\ a.endEventTimeout.st = "null" /\ remainingMs > 0
     THEN [a EXCEPT !.endEventTimeout = PendingTimer(wallNow + remainingMs)]
     ELSE a

pause_AlwaysPlayingFormula(m, ctxNow, lat) ==
  LET currentTime == m.lastSeekChartTimeMs + (ctxNow - m.lastAudioCtxCurrentTime) - lat
  IN stopAudioSources([m EXCEPT !._isPaused = TRUE,
                                !.lastSeekChartTimeMs = currentTime,
                                !.lastAudioCtxCurrentTime = ctxNow,
                                !.endEventTimeout = NoTimer])

\* pause()
pause(m, ctxNow, lat) ==
  LET currentTime == chartCurrentTimeMs(m, ctxNow, lat)
  IN stopAudioSources([m EXCEPT !._isPaused = TRUE,
                                !.lastSeekChartTimeMs = currentTime,
                                !.lastAudioCtxCurrentTime = ctxNow,
                                !.endEventTimeout = NoTimer])

seek_KeepsState(m, num, ctxNow) ==
  LET chartSeekTimeMs == (num * chartEndTimeMs(m)) \div PercentDen
  IN stopAudioSources([m EXCEPT !.endEventTimeout = NoTimer,
                                !.lastSeekChartTimeMs = chartSeekTimeMs,
                                !.lastAudioCtxCurrentTime = ctxNow])

\* seek(percentComplete), percentComplete = num / PercentDen
seek(m, num, ctxNow) ==
  LET chartSeekTimeMs == (num * chartEndTimeMs(m)) \div PercentDen
  IN stopAudioSources([m EXCEPT !.endEventTimeout = NoTimer,
                                !.lastSeekChartTimeMs = chartSeekTimeMs,
                                !.lastAudioCtxCurrentTime = ctxNow,
                                !._isPaused = TRUE])

closeAudio_StopsEveryInstance(ms, i) ==
  [j \in DOMAIN ms |->
     stopAudioSources([ms[j] EXCEPT !.listeners = IF j = i THEN FALSE ELSE @,
                                    !.phase = IF j = i THEN "closed" ELSE @,
                                    !._isPaused = TRUE,
                                    !.endEventTimeout = NoTimer])]

\* closeAudio() of instance i, as a change of the table of managers
closeAudio(ms, i) ==
  [ms EXCEPT ![i] = stopAudioSources([@ EXCEPT !.listeners = FALSE,
                                               !.phase = "closed",
                                               !._isPaused = TRUE,
                                               !.endEventTimeout = NoTimer])]

unregisterInstance_NoFloor(count) == count - 1

\* unregisterInstance()
unregisterInstance(count) == Max2(0, count - 1)

getSharedAudioContext_PerInstance(state, created) == created + 1

\* getSharedAudioContext(): contexts are numbered in the order they are
\* constructed and the module variable refers to the latest one; the result
\* is the number of the context returned
getSharedAudioContext(state, created) ==
  IF state \in {"null", "closed"} THEN created + 1 ELSE created

\* registerInstance()
registerInstance(count) == count + 1

\* ------------------------------------------------------ SilentAudioManager
\* SilentAudioManager: get chartCurrentTimeMs
silentChartCurrentTimeMs(m, wallNow) ==
  IF m.isPaused
  THEN m.lastResumeChartTimeMs
  ELSE m.lastResumeChartTimeMs + wallNow - m.lastResumeClockTimeMs

\* SilentAudioManager: get chartEndTimeMs
silentChartEndTimeMs(m) ==
  Max2(Max2(m.startDelayMs + m.audioLengthMs, m.audioLengthMs), 0)

\* SilentAudioManager.play()
silentPlay(m, wallNow) ==
  LET from == IF m.lastResumeChartTimeMs >= silentChartEndTimeMs(m) - RESTART_SLACK_MS
              THEN 0
              ELSE m.lastResumeChartTimeMs
  IN [m EXCEPT !.lastResumeChartTimeMs = from,
               !.lastResumeClockTimeMs = wallNow,
               !.endEventTimeout =
                  PendingTimer(wallNow + Max2(silentChartEndTimeMs(m) - from, 0)),
               !.isPaused = FALSE]

\* SilentAudioManager.pause(): clearTimeout leaves the stale id in the field
silentPause(m, wallNow) ==
  [m EXCEPT !.lastResumeChartTimeMs = silentChartCurrentTimeMs(m, wallNow),
            !.endEventTimeout = IF @.st = "null" THEN @ ELSE [@ EXCEPT !.st = "dead"],
            !.isPaused = TRUE]

\* SilentAudioManager.seek(percentComplete)
silentSeek(m, num, wallNow) ==
  LET s == [m EXCEPT !.lastResumeChartTimeMs =
                        (silentChartEndTimeMs(m) * num) \div PercentDen]
  IN IF ~s.isPaused THEN silentPlay(s, wallNow) ELSE s

\* SilentAudioManager.closeAudio()
silentCloseAudio(m) ==
  [m EXCEPT !.listeners = FALSE,
            !.phase = "closed",
            !.endEventTimeout = IF @.st = "null" THEN @ ELSE [@ EXCEPT !.st = "dead"]]

\* new SilentAudioManager(startDelayMs, audioLengthMs); await seek(0)
SilentAudioManagerCreate(delay, length) ==
  [Absent EXCEPT !.kind = "silent", !.phase = "ready", !.listeners = TRUE,
                 !.startDelayMs = delay, !.audioLengthMs = length,
                 !.lastResumeChartTimeMs = 0]

\* ----------------------------------------------------------- observations
\* the chart time an instance reports now
Reported(i) ==
  IF mgr[i].kind = "silent"
  THEN silentChartCurrentTimeMs(mgr[i], now)
  ELSE chartCurrentTimeMs(mgr[i], ctxTime, latencyMs)

ReportedNext(i) ==
  IF mgr'[i].kind = "silent"
  THEN silentChartCurrentTimeMs(mgr'[i], now')
  ELSE chartCurrentTimeMs(mgr'[i], ctxTime', latencyMs')

EndTime(i) ==
  IF mgr[i].kind = "silent" THEN silentChartEndTimeMs(mgr[i]) ELSE chartEndTimeMs(mgr[i])

Paused(i) == IF mgr[i].kind = "silent" THEN mgr[i].isPaused ELSE mgr[i]._isPaused

\* ------------------------------------------------- play-session bookkeeping
\* the "end" event reaches the listeners attached by ChartPreview.create
Emitted(s, listeners, wasPaused, wallNow) ==
  IF ~listeners
  THEN s
  ELSE [s EXCEPT !.ends = Min2(@ + 1, 2),
                 !.endAt = IF s.ends = 0 THEN wallNow ELSE @,
                 !.endWhilePaused = @ \/ wasPaused]

SessionStart(s, wasPaused, chartTime, wallNow) ==
  [NoSession EXCEPT !.active = TRUE, !.fromPaused = wasPaused,
                    !.startNow = wallNow, !.startChart = chartTime,
                    !.endWhilePaused = s.endWhilePaused,
                    !.pauses = s.pauses,
                    !.afterSeek = (s.sought # "no"),
                    !.startTarget = IF s.sought # "no" THEN s.seekTarget ELSE 0]

SessionStop(s) ==
  [NoSession EXCEPT !.endWhilePaused = s.endWhilePaused,
                    !.sought = s.sought, !.seekTarget = s.seekTarget,
                    !.pauses = s.pauses]

\* pause() called: counts the pauses that interrupted playback (up to 2)
SessionPause(s, wasPaused) ==
  [SessionStop(s) EXCEPT !.pauses = IF wasPaused THEN @ ELSE Min2(@ + 1, 2)]

\* seek() called
SessionSeek(s, wasPaused, target) ==
  [SessionStop(s) EXCEPT !.sought = IF wasPaused THEN "paused" ELSE "playing",
                         !.seekTarget = target]

Op(name, i, wasPaused) ==
  [op |-> name, inst |-> i, wasPaused |-> wasPaused, arg |-> 0]

\* the natural end of source k of manager m on the device clock
SourceEndTime(m, k) ==
  m.audioSources[k].when + Max2(m.audioBuffers[k] - m.audioSources[k].offset, 0)

SourceDue(m, k) ==
  /\ ~m.audioSources[k].ended
  /\ ctxTime >= SourceEndTime(m, k)

TimerDue(i) ==
  \/ mgr[i].endEventTimeout.st = "pending" /\ now >= mgr[i].endEventTimeout.due
  \/ \E k \in 1..Len(orphanTimers[i]) : now >= orphanTimers[i][k]

SeekExact(i, num) == (num * EndTime(i)) % PercentDen = 0

\* ------------------------------------------------------------------ actions
\* AudioManager.create, first half: the constructor (getSharedAudioContext,
\* registerInstance).  A new AudioContext starts suspended or running.
Construct(i) ==
  /\ audioSupported
  /\ mgr[i].phase = "absent"
  /\ activeInstanceCount < MaxCount
  /\ contextsCreated' = getSharedAudioContext(sharedContext, contextsCreated)
  /\ \E files \in inputs.files, delay \in inputs.delays, fallback \in inputs.fallbacks :
       mgr' = [mgr EXCEPT ![i] = [AudioManagerNew(files, delay, fallback) EXCEPT
                                    !.audioCtx = contextsCreated']]
  /\ IF contextsCreated' # contextsCreated
     THEN \E st \in inputs.ctxStart : sharedContext' = st
     ELSE sharedContext' = sharedContext
  /\ activeInstanceCount' = registerInstance(activeInstanceCount)
  /\ lastOp' = Op("construct", i, TRUE)
  /\ UNCHANGED <<seqVars, now, audioSupported, ctxTime, latencyMs, insts, inputs,
                 orphanTimers, pendingPlay, sess>>

\* AudioManager.create, second half: decodeAudioFiles resolved, the manager
\* is returned and ChartPreview.create attaches its "end" listener.
DecodeDone(i) ==
  /\ mgr[i].phase = "constructed"
  /\ \E durations \in inputs.durations :
       /\ Len(durations) = mgr[i].audioFiles
       /\ mgr' = [mgr EXCEPT ![i] = [decodeAudioFiles(@, durations) EXCEPT
                                        !.phase = "ready", !.listeners = TRUE]]
  /\ lastOp' = Op("decode", i, TRUE)
  /\ UNCHANGED <<seqVars, now, audioSupported, contextsCreated, sharedContext, ctxTime, latencyMs,
                 activeInstanceCount, insts, inputs, orphanTimers, pendingPlay, sess>>

\* decodeAudioData rejected for some file: Promise.all rejects, create() throws
DecodeFail(i) ==
  /\ mgr[i].phase = "constructed"
  /\ mgr[i].audioFiles > 0
  /\ inputs.decodeMayFail
  /\ mgr' = [mgr EXCEPT ![i].phase = "failed"]
  /\ lastOp' = Op("decodeFail", i, TRUE)
  /\ UNCHANGED <<seqVars, now, audioSupported, contextsCreated, sharedContext, ctxTime, latencyMs,
                 activeInstanceCount, insts, inputs, orphanTimers, pendingPlay, sess>>

\* SilentAudioManager.create
SilentCreate(i) ==
  /\ ~audioSupported
  /\ mgr[i].phase = "absent"
  /\ \E delay \in inputs.delays, length \in inputs.fallbacks :
       mgr' = [mgr EXCEPT ![i] = SilentAudioManagerCreate(delay, length)]
  /\ lastOp' = Op("create", i, TRUE)
  /\ UNCHANGED <<seqVars, now, audioSupported, contextsCreated, sharedContext, ctxTime, latencyMs,
                 activeInstanceCount, insts, inputs, orphanTimers, pendingPlay, sess>>

\* AudioManager.play() up to "await this.audioCtx.resume()"; when the context
\* is running there is no await and the whole body runs in this step.
PlayCall(i) ==
  /\ mgr[i].kind = "audio" /\ mgr[i].phase = "ready"
  /\ IF sharedContext = "suspended"
     THEN /\ pendingPlay[i] < MaxPendingPlays
          /\ pendingPlay' = [pendingPlay EXCEPT ![i] = @ + 1]
          /\ lastOp' = Op("playCall", i, mgr[i]._isPaused)
          /\ UNCHANGED <<mgr, sess>>
     ELSE /\ mgr' = [mgr EXCEPT ![i] = play(@, ctxTime, now, latencyMs)]
          /\ sess' = [sess EXCEPT ![i] = SessionStart(@, mgr[i]._isPaused,
                                            mgr[i].lastSeekChartTimeMs, now)]
          /\ lastOp' = Op("play", i, mgr[i]._isPaused)
          /\ UNCHANGED pendingPlay
  /\ UNCHANGED <<seqVars, now, audioSupported, contextsCreated, sharedContext, ctxTime, latencyMs,
                 activeInstanceCount, insts, inputs, orphanTimers>>

\* resume() resolved: the suspended play() continues
PlayResume(i) ==
  /\ pendingPlay[i] > 0
  /\ pendingPlay' = [pendingPlay EXCEPT ![i] = @ - 1]
  /\ sharedContext' = "running"
  /\ mgr' = [mgr EXCEPT ![i] = play(@, ctxTime, now, latencyMs)]
  /\ sess' = [sess EXCEPT ![i] = SessionStart(@, mgr[i]._isPaused,
                                    mgr[i].lastSeekChartTimeMs, now)]
  /\ lastOp' = Op("play", i, mgr[i]._isPaused)
  /\ UNCHANGED <<seqVars, now, audioSupported, contextsCreated, ctxTime, latencyMs, activeInstanceCount,
                 insts, inputs, orphanTimers>>

\* resume() rejected: the suspended play() throws before it changes anything
PlayResumeFail(i) ==
  /\ pendingPlay[i] > 0
  /\ pendingPlay' = [pendingPlay EXCEPT ![i] = @ - 1]
  /\ lastOp' = Op("playFail", i, mgr[i]._isPaused)
  /\ UNCHANGED <<seqVars, now, audioSupported, contextsCreated, sharedContext, ctxTime,
                 latencyMs, activeInstanceCount, insts, inputs, mgr, orphanTimers,
                 sess>>

\* AudioManager.pause()
Pause(i) ==
  /\ mgr[i].kind = "audio" /\ mgr[i].phase = "ready"
  /\ chartCurrentTimeMs(mgr[i], ctxTime, latencyMs) >= -MaxDrift
  /\ mgr' = [mgr EXCEPT ![i] = pause(@, ctxTime, latencyMs)]
  /\ sess' = [sess EXCEPT ![i] = SessionPause(@, mgr[i]._isPaused)]
  /\ lastOp' = Op("pause", i, mgr[i]._isPaused)
  /\ UNCHANGED <<seqVars, now, audioSupported, contextsCreated, sharedContext, ctxTime, latencyMs,
                 activeInstanceCount, insts, inputs, orphanTimers, pendingPlay>>

\* AudioManager.seek(num / PercentDen)
Seek(i, num) ==
  /\ mgr[i].kind = "audio" /\ mgr[i].phase = "ready"
  /\ SeekExact(i, num)
  /\ mgr' = [mgr EXCEPT ![i] = seek(@, num, ctxTime)]
  /\ sess' = [sess EXCEPT ![i] = SessionSeek(@, mgr[i]._isPaused,
                                    (num * EndTime(i)) \div PercentDen)]
  /\ lastOp' = Op("seek", i, mgr[i]._isPaused)
  /\ UNCHANGED <<seqVars, now, audioSupported, contextsCreated, sharedContext, ctxTime, latencyMs,
                 activeInstanceCount, insts, inputs, orphanTimers, pendingPlay>>

\* AudioManager: volume = v / VolumeDen
SetVolume(i, v) ==
  /\ mgr[i].kind = "audio" /\ mgr[i].phase \in {"ready", "closed"}
  /\ mgr' = [mgr EXCEPT ![i] = setVolume(@, v)]
  /\ lastOp' = [Op("volume", i, mgr[i]._isPaused) EXCEPT !.arg = v]
  /\ UNCHANGED <<seqVars, now, audioSupported, contextsCreated, sharedContext, ctxTime,
                 latencyMs, activeInstanceCount, insts, inputs, orphanTimers,
                 pendingPlay, sess>>

\* AudioManager.closeAudio(), also when called a second time
Close(i) ==
  /\ mgr[i].kind = "audio" /\ mgr[i].phase \in {"ready", "closed"}
  /\ mgr' = closeAudio(mgr, i)
  /\ activeInstanceCount' = unregisterInstance(activeInstanceCount)
  /\ sess' = [sess EXCEPT ![i] = SessionStop(@)]
  /\ lastOp' = Op("close", i, mgr[i]._isPaused)
  /\ UNCHANGED <<seqVars, now, audioSupported, contextsCreated, sharedContext, ctxTime, latencyMs,
                 insts, inputs, orphanTimers, pendingPlay>>

\* source.onended of source k
SourceEnded(i, k) ==
  /\ mgr[i].kind = "audio"
  /\ k \in 1..Len(mgr[i].audioSources)
  /\ SourceDue(mgr[i], k)
  /\ mgr' = [mgr EXCEPT ![i].audioSources[k].ended = TRUE,
                        ![i].endedCount = @ + 1]
  /\ sess' = IF mgr[i].endedCount + 1 = Len(mgr[i].audioBuffers) /\ ~mgr[i]._isPaused
             THEN [sess EXCEPT ![i] = Emitted(@, mgr[i].listeners, mgr[i]._isPaused, now)]
             ELSE sess
  /\ lastOp' = Op("ended", i, mgr[i]._isPaused)
  /\ UNCHANGED <<seqVars, now, audioSupported, contextsCreated, sharedContext, ctxTime, latencyMs,
                 activeInstanceCount, insts, inputs, orphanTimers, pendingPlay>>

\* the end timeout armed by AudioManager.play / startAudioSources fires
TimerFire(i) ==
  /\ mgr[i].kind = "audio"
  /\ mgr[i].endEventTimeout.st = "pending"
  /\ now >= mgr[i].endEventTimeout.due
  /\ mgr' = [mgr EXCEPT ![i].endEventTimeout.st = "dead"]
  /\ sess' = [sess EXCEPT ![i] = Emitted(@, mgr[i].listeners, mgr[i]._isPaused, now)]
  /\ lastOp' = Op("timer", i, mgr[i]._isPaused)
  /\ UNCHANGED <<seqVars, now, audioSupported, contextsCreated, sharedContext, ctxTime, latencyMs,
                 activeInstanceCount, insts, inputs, orphanTimers, pendingPlay>>

\* SilentAudioManager.play(): a pending timeout the field referred to is
\* overwritten, not cleared
SilentPlay(i) ==
  /\ mgr[i].kind = "silent" /\ mgr[i].phase = "ready"
  /\ mgr[i].endEventTimeout.st = "pending" => Len(orphanTimers[i]) < MaxOrphans
  /\ mgr' = [mgr EXCEPT ![i] = silentPlay(@, now)]
  /\ orphanTimers' = IF mgr[i].endEventTimeout.st = "pending"
                     THEN [orphanTimers EXCEPT ![i] = Append(@, mgr[i].endEventTimeout.due)]
                     ELSE orphanTimers
  /\ sess' = [sess EXCEPT ![i] = SessionStart(@, mgr[i].isPaused,
                                    mgr'[i].lastResumeChartTimeMs, now)]
  /\ lastOp' = Op("play", i, mgr[i].isPaused)
  /\ UNCHANGED <<seqVars, now, audioSupported, contextsCreated, sharedContext, ctxTime, latencyMs,
                 activeInstanceCount, insts, inputs, pendingPlay>>

\* SilentAudioManager.pause()
SilentPause(i) ==
  /\ mgr[i].kind = "silent" /\ mgr[i].phase = "ready"
  /\ mgr' = [mgr EXCEPT ![i] = silentPause(@, now)]
  /\ sess' = [sess EXCEPT ![i] = SessionPause(@, mgr[i].isPaused)]
  /\ lastOp' = Op("pause", i, mgr[i].isPaused)
  /\ UNCHANGED <<seqVars, now, audioSupported, contextsCreated, sharedContext, ctxTime, latencyMs,
                 activeInstanceCount, insts, inputs, orphanTimers, pendingPlay>>

\* SilentAudioManager.seek(num / PercentDen): calls play() when not paused
SilentSeek(i, num) ==
  /\ mgr[i].kind = "silent" /\ mgr[i].phase = "ready"
  /\ SeekExact(i, num)
  /\ (~mgr[i].isPaused /\ mgr[i].endEventTimeout.st = "pending")
        => Len(orphanTimers[i]) < MaxOrphans
  /\ mgr' = [mgr EXCEPT ![i] = silentSeek(@, num, now)]
  /\ orphanTimers' = IF ~mgr[i].isPaused /\ mgr[i].endEventTimeout.st = "pending"
                     THEN [orphanTimers EXCEPT ![i] = Append(@, mgr[i].endEventTimeout.due)]
                     ELSE orphanTimers
  /\ sess' = [sess EXCEPT ![i] =
                IF mgr[i].isPaused
                THEN SessionSeek(@, TRUE, (num * EndTime(i)) \div PercentDen)
                ELSE [SessionStart(@, FALSE, mgr'[i].lastResumeChartTimeMs, now)
                        EXCEPT !.sought = "playing",
                               !.seekTarget = (num * EndTime(i)) \div PercentDen]]
  /\ lastOp' = Op("seek", i, mgr[i].isPaused)
  /\ UNCHANGED <<seqVars, now, audioSupported, contextsCreated, sharedContext, ctxTime, latencyMs,
                 activeInstanceCount, insts, inputs, pendingPlay>>

\* SilentAudioManager.closeAudio()
SilentClose(i) ==
  /\ mgr[i].kind = "silent" /\ mgr[i].phase = "ready"
  /\ mgr' = [mgr EXCEPT ![i] = silentCloseAudio(@)]
  /\ sess' = [sess EXCEPT ![i] = SessionStop(@)]
  /\ lastOp' = Op("close", i, mgr[i].isPaused)
  /\ UNCHANGED <<seqVars, now, audioSupported, contextsCreated, sharedContext, ctxTime, latencyMs,
                 activeInstanceCount, insts, inputs, orphanTimers, pendingPlay>>

\* the timeout of SilentAudioManager.play fires: this.pause(); emit("end").
\* Timeouts due at the same time run in the order they were set.
SilentTimerFire(i) ==
  /\ mgr[i].kind = "silent"
  /\ mgr[i].endEventTimeout.st = "pending"
  /\ now >= mgr[i].endEventTimeout.due
  /\ \A k \in 1..Len(orphanTimers[i]) : now < orphanTimers[i][k]
  /\ mgr' = [mgr EXCEPT ![i] = silentPause(@, now)]
  /\ sess' = [sess EXCEPT ![i] = [Emitted(@, mgr[i].listeners, mgr[i].isPaused, now)
                                    EXCEPT !.active = FALSE]]
  /\ lastOp' = Op("timer", i, mgr[i].isPaused)
  /\ UNCHANGED <<seqVars, now, audioSupported, contextsCreated, sharedContext, ctxTime, latencyMs,
                 activeInstanceCount, insts, inputs, orphanTimers, pendingPlay>>

\* a timeout of an earlier SilentAudioManager.play fires
OrphanTimerFire(i, k) ==
  /\ mgr[i].kind = "silent"
  /\ k \in 1..Len(orphanTimers[i])
  /\ now >= orphanTimers[i][k]
  /\ \A j \in 1..(k - 1) : now < orphanTimers[i][j]
  /\ orphanTimers' = [orphanTimers EXCEPT ![i] = RemoveAt(@, k)]
  /\ mgr' = [mgr EXCEPT ![i] = silentPause(@, now)]
  /\ sess' = [sess EXCEPT ![i] = [Emitted(@, mgr[i].listeners, mgr[i].isPaused, now)
                                    EXCEPT !.active = FALSE]]
  /\ lastOp' = Op("timer", i, mgr[i].isPaused)
  /\ UNCHANGED <<seqVars, now, audioSupported, contextsCreated, sharedContext, ctxTime, latencyMs,
                 activeInstanceCount, insts, inputs, pendingPlay>>

\* one millisecond passes; due timeouts and ended events are delivered first
Tick ==
  /\ now < Min2(MaxTime, inputs.horizon)
  /\ \A i \in insts : ~TimerDue(i)
  /\ \A i \in insts : \A k \in 1..Len(mgr[i].audioSources) : ~SourceDue(mgr[i], k)
  /\ now' = now + 1
  /\ ctxTime' = IF sharedContext = "running" THEN ctxTime + 1 ELSE ctxTime
  /\ lastOp' = Op("tick", 0, TRUE)
  /\ UNCHANGED <<seqVars, audioSupported, contextsCreated, sharedContext, latencyMs, activeInstanceCount,
                 insts, inputs, mgr, orphanTimers, pendingPlay, sess>>

Percents == 0..PercentDen

Next ==
  \/ Tick /\ UNCHANGED appVars
  \/ \E i \in insts : Construct(i) /\ UNCHANGED appVars
  \/ \E i \in insts : DecodeDone(i) /\ UNCHANGED appVars
  \/ \E i \in insts : DecodeFail(i) /\ UNCHANGED appVars
  \/ \E i \in insts : SilentCreate(i) /\ UNCHANGED appVars
  \/ \E i \in insts : PlayCall(i) /\ UNCHANGED appVars
  \/ \E i \in insts : PlayResume(i) /\ UNCHANGED appVars
  \/ \E i \in insts : Pause(i) /\ UNCHANGED appVars
  \/ \E i \in insts, num \in Percents : Seek(i, num) /\ UNCHANGED appVars
  \/ \E i \in insts : Close(i) /\ UNCHANGED appVars
  \/ \E i \in insts, k \in 1..2 : SourceEnded(i, k) /\ UNCHANGED appVars
  \/ \E i \in insts : TimerFire(i) /\ UNCHANGED appVars
  \/ \E i \in insts : SilentPlay(i) /\ UNCHANGED appVars
  \/ \E i \in insts : SilentPause(i) /\ UNCHANGED appVars
  \/ \E i \in insts, num \in Percents : SilentSeek(i, num) /\ UNCHANGED appVars
  \/ \E i \in insts : SilentClose(i) /\ UNCHANGED appVars
  \/ \E i \in insts : SilentTimerFire(i) /\ UNCHANGED appVars
  \/ \E i \in insts, k \in 1..MaxOrphans : OrphanTimerFire(i, k) /\ UNCHANGED appVars

\* one instance slot; the environment supports AudioContext or not
ClockInputs ==
  [files |-> {0, 1, 2}, delays |-> {-2, 0, 2}, fallbacks |-> {4},
   durations |-> {<<>>, <<3>>, <<2, 4>>},
   ctxStart |-> {"suspended", "running"}, decodeMayFail |-> TRUE,
   horizon |-> MaxTime]

\* the EventSequence part of the state when no sequence is under study
SeqIdle ==
  /\ events = <<>>
  /\ lastPrecedingEventIndex = -1
  /\ lastPrecedingEventIndexesOfType = <<>>
  /\ queryTimes = {}
  /\ traceCap = 0
  /\ trace = <<>>
  /\ noteGroups = {}
  /\ noteMaterials = {}

\* the ChartPreview / player part of the state when none is under study
AppIdle ==
  /\ preview = <<>>
  /\ player = <<>>

Init ==
  /\ now = 0
  /\ audioSupported \in BOOLEAN
  /\ sharedContext = "null"
  /\ contextsCreated = 0
  /\ ctxTime = 0
  /\ latencyMs \in {0, 1}
  /\ activeInstanceCount = 0
  /\ insts = {1}
  /\ inputs = ClockInputs
  /\ mgr = [i \in insts |-> Absent]
  /\ orphanTimers = [i \in insts |-> <<>>]
  /\ pendingPlay = [i \in insts |-> 0]
  /\ sess = [i \in insts |-> NoSession]
  /\ lastOp = NoOp
  /\ SeqIdle
  /\ AppIdle

Spec == Init /\ [][Next]_vars

\* ----------------------------------------------------------- EventSequence
MaxEvents == 2
MaxMs == 1
MaxLength == 3

NoteTypes == {"green", "red"}

EmptyCursor == [last |-> -1, ofType |-> <<>>]

\* Map.set(type, index)
MapSet(f, ty, idx) ==
  [t \in (DOMAIN f) \cup {ty} |-> IF t = ty THEN idx ELSE f[t]]

Precedes_Inclusive(e, startMs) == e.msTime <= startMs

\* the scan condition: events[lastPrecedingEventIndex + 1].msTime < startMs
Precedes(e, startMs) == e.msTime < startMs

StillOpen_Inclusive(e, startMs) == e.msTime + e.msLength >= startMs

\* events[index].msTime + events[index].msLength > startMs
StillOpen(e, startMs) == e.msTime + e.msLength > startMs

EarliestOf_Latest(indexes) ==
  CHOOSE x \in indexes : \A y \in indexes : y <= x

\* the loop keeping the smallest index among the open ones
EarliestOf(indexes) ==
  CHOOSE x \in indexes : \A y \in indexes : x <= y

\* the while loop of getEarliestActiveEventIndex; index k of the source is
\* element k + 1 of the sequence
RECURSIVE ScanForward(_, _, _)
ScanForward(evts, cur, startMs) ==
  IF cur.last + 2 <= Len(evts) /\ Precedes(evts[cur.last + 2], startMs)
  THEN ScanForward(evts,
                   [last |-> cur.last + 1,
                    ofType |-> MapSet(cur.ofType, evts[cur.last + 2].type, cur.last + 1)],
                   startMs)
  ELSE cur

\* getEarliestActiveEventIndex(startMs): the cursor it leaves, the index it
\* returns and whether it took the reset branch
getEarliestActiveEventIndex(evts, cur, startMs) ==
  LET reset == cur.last # -1 /\ startMs < evts[cur.last + 1].msTime
      scanned == ScanForward(evts, IF reset THEN EmptyCursor ELSE cur, startMs)
      open == {scanned.ofType[t] : t \in
                 {u \in DOMAIN scanned.ofType :
                    StillOpen(evts[scanned.ofType[u] + 1], startMs)}}
  IN [cursor |-> scanned,
      reset |-> reset,
      result |-> IF open = {} THEN scanned.last + 1 ELSE EarliestOf(open)]

Cursor == [last |-> lastPrecedingEventIndex, ofType |-> lastPrecedingEventIndexesOfType]

HIGHWAY_DURATION_MS == 1500

\* what the history keeps of one call: its time and result, whether it took
\* the reset branch, the cursor it left, whether all calls so far came in
\* non-decreasing order (mono), and whether no call so far jumped back by
\* the highway duration or more (near)
TraceEntry(t, q) ==
  [t |-> t, result |-> q.result, reset |-> q.reset, last |-> q.cursor.last,
   mono |-> (trace = <<>>) \/ (trace[Len(trace)].mono /\ trace[Len(trace)].t <= t),
   near |-> (trace = <<>>)
              \/ (trace[Len(trace)].near /\ t > trace[Len(trace)].t - HIGHWAY_DURATION_MS)]

\* one call of getEarliestActiveEventIndex(t)
Query(t) ==
  LET q == getEarliestActiveEventIndex(events, Cursor, t)
      entry == TraceEntry(t, q)
      kept == IF Len(trace) < traceCap THEN trace ELSE Tail(trace)
  IN /\ t \in queryTimes
     /\ lastPrecedingEventIndex' = q.cursor.last
     /\ lastPrecedingEventIndexesOfType' = q.cursor.ofType
     /\ trace' = Append(kept, entry)
     /\ UNCHANGED <<clockVars, events, queryTimes, traceCap, noteGroups, noteMaterials>>

NextSeq == \E t \in queryTimes : Query(t) /\ UNCHANGED appVars

EventValues == [msTime : 0..MaxMs, msLength : 0..MaxLength, type : NoteTypes]

\* the event lists the constructor accepts: sorted in msTime order
SortedEvents ==
  UNION {{e \in [1..n -> EventValues] :
            \A k \in 1..(n - 1) : e[k].msTime <= e[k + 1].msTime} : n \in 0..MaxEvents}

\* the audio part of the state when no manager is under study
ClockIdle ==
  /\ now = 0
  /\ audioSupported = FALSE
  /\ sharedContext = "null"
  /\ contextsCreated = 0
  /\ ctxTime = 0
  /\ latencyMs = 0
  /\ activeInstanceCount = 0
  /\ insts = {}
  /\ inputs = ClockInputs
  /\ mgr = <<>>
  /\ orphanTimers = <<>>
  /\ pendingPlay = <<>>
  /\ sess = <<>>
  /\ lastOp = NoOp
  /\ AppIdle

\* a fresh EventSequence over any sorted event list
InitSeq ==
  /\ ClockIdle
  /\ events \in SortedEvents
  /\ lastPrecedingEventIndex = -1
  /\ lastPrecedingEventIndexesOfType = <<>>
  /\ queryTimes = 0..(MaxMs + MaxLength)
  /\ traceCap = 2
  /\ trace = <<>>
  /\ noteGroups = {}
  /\ noteMaterials = {}

SpecSeq == InitSeq /\ [][NextSeq]_vars

\* ------------------------------------------------------------ NotesManager
MaxNotes == 3

NoteTimes == {0, 1000, 2000}
NoteLengths == {0, 1000}
UpdateTimes == {0, 500, 1000, 2500}

\* the first loop of updateDisplayedNotes: the displayed indexes it keeps
keptNoteGroups(groups, evts, noteStartIndex, renderEndTimeMs) ==
  {i \in groups : ~(i < noteStartIndex \/ evts[i + 1].msTime > renderEndTimeMs)}

\* maxNoteEventIndex after the first loop
maxNoteEventIndex(kept, noteStartIndex) ==
  IF kept = {} THEN noteStartIndex - 1
  ELSE Max2(noteStartIndex - 1, CHOOSE x \in kept : \A y \in kept : y <= x)

\* the second loop: from index i on while noteEvents[i] exists and starts
\* before renderEndTimeMs; a note without a material is skipped
RECURSIVE spawnNotes(_, _, _, _, _)
spawnNotes(groups, evts, materials, i, renderEndTimeMs) ==
  IF i + 1 <= Len(evts) /\ evts[i + 1].msTime < renderEndTimeMs
  THEN spawnNotes(IF evts[i + 1].type \in materials THEN groups \cup {i} ELSE groups,
                  evts, materials, i + 1, renderEndTimeMs)
  ELSE groups

\* the second loop starts at maxNoteEventIndex + 1
spawnNewNotes(groups, evts, materials, noteStartIndex, renderEndTimeMs) ==
  spawnNotes(groups, evts, materials,
             maxNoteEventIndex(groups, noteStartIndex) + 1, renderEndTimeMs)

\* NotesManager.updateDisplayedNotes(chartCurrentTimeMs)
UpdateDisplayedNotes(t) ==
  LET q == getEarliestActiveEventIndex(events, Cursor, t)
      renderEndTimeMs == t + HIGHWAY_DURATION_MS
      kept == keptNoteGroups(noteGroups, events, q.result, renderEndTimeMs)
      keptTrace == IF Len(trace) < traceCap THEN trace ELSE Tail(trace)
  IN /\ t \in queryTimes
     /\ lastPrecedingEventIndex' = q.cursor.last
     /\ lastPrecedingEventIndexesOfType' = q.cursor.ofType
     /\ trace' = Append(keptTrace, TraceEntry(t, q))
     /\ noteGroups' = spawnNewNotes(kept, events, noteMaterials, q.result,
                                         renderEndTimeMs)
     /\ UNCHANGED <<clockVars, events, queryTimes, traceCap, noteMaterials>>

NextNotes == \E t \in queryTimes : UpdateDisplayedNotes(t) /\ UNCHANGED appVars

NoteValues == [msTime : NoteTimes, msLength : NoteLengths, type : NoteTypes]

\* the note lists of a track: sorted in msTime order
SortedNotes ==
  UNION {{e \in [1..n -> NoteValues] :
            \A k \in 1..(n - 1) : e[k].msTime <= e[k + 1].msTime} : n \in 0..MaxNotes}

\* a fresh NotesManager over any sorted note list, with textures for all
\* note types or for one of them only
InitNotes ==
  /\ ClockIdle
  /\ events \in SortedNotes
  /\ lastPrecedingEventIndex = -1
  /\ lastPrecedingEventIndexesOfType = <<>>
  /\ queryTimes = UpdateTimes
  /\ traceCap = 1
  /\ trace = <<>>
  /\ noteGroups = {}
  /\ noteMaterials \in {NoteTypes, {"green"}}

SpecNotes == InitNotes /\ [][NextNotes]_vars

SustainEvent == [msTime |-> 1000, msLength |-> 500, type |-> "green"]

\* a fresh EventSequence over the single sustained event
InitSustain ==
  /\ ClockIdle
  /\ events = <<SustainEvent>>
  /\ lastPrecedingEventIndex = -1
  /\ lastPrecedingEventIndexesOfType = <<>>
  /\ queryTimes = {900, 1000, 1400, 1500, 1600}
  /\ traceCap = 4
  /\ trace = <<>>
  /\ noteGroups = {}
  /\ noteMaterials = {}

SpecSustain == InitSustain /\ [][NextSeq]_vars

\* ------------------------------------------------- chartEndTimeMs on inputs
EndInputs ==
  [files |-> {0, 1, 2}, delays |-> {-(10^9), 0, 10^9}, fallbacks |-> {0, 1, 3},
   durations |-> {<<>>, <<0>>, <<2>>, <<0, 0>>, <<1, 2>>, <<2, 1>>},
   ctxStart |-> {"suspended", "running"}, decodeMayFail |-> FALSE,
   horizon |-> 0]

InitEnd ==
  /\ now = 0
  /\ audioSupported \in BOOLEAN
  /\ sharedContext = "null"
  /\ contextsCreated = 0
  /\ ctxTime = 0
  /\ latencyMs \in {0, 1}
  /\ activeInstanceCount = 0
  /\ insts = {1, 2}
  /\ inputs = EndInputs
  /\ mgr = [i \in insts |-> Absent]
  /\ orphanTimers = [i \in insts |-> <<>>]
  /\ pendingPlay = [i \in insts |-> 0]
  /\ sess = [i \in insts |-> NoSession]
  /\ lastOp = NoOp
  /\ SeqIdle
  /\ AppIdle

NextEnd ==
  \/ \E i \in insts : Construct(i) /\ UNCHANGED appVars
  \/ \E i \in insts : DecodeDone(i) /\ UNCHANGED appVars
  \/ \E i \in insts : SilentCreate(i) /\ UNCHANGED appVars

SpecEnd == InitEnd /\ [][NextEnd]_vars

\* ------------------------------------------- instances sharing the device
SharedInputs ==
  [files |-> {0, 1}, delays |-> {0}, fallbacks |-> {1},
   durations |-> {<<>>, <<1>>},
   ctxStart |-> {"running"}, decodeMayFail |-> FALSE,
   horizon |-> 1]

\* three device-backed instances were created: one without audio, two with a
\* one-millisecond buffer
InitShared ==
  /\ now = 0
  /\ audioSupported = TRUE
  /\ sharedContext = "running"
  /\ contextsCreated = 1
  /\ ctxTime = 0
  /\ latencyMs = 0
  /\ activeInstanceCount = 3
  /\ insts = {1, 2, 3}
  /\ inputs = SharedInputs
  /\ mgr = [i \in insts |->
              LET d == IF i = 1 THEN <<>> ELSE <<1>>
              IN [decodeAudioFiles(AudioManagerNew(Len(d), 0, 1), d)
                    EXCEPT !.phase = "ready", !.listeners = TRUE, !.audioCtx = 1]]
  /\ orphanTimers = [i \in insts |-> <<>>]
  /\ pendingPlay = [i \in insts |-> 0]
  /\ sess = [i \in insts |-> NoSession]
  /\ lastOp = NoOp
  /\ SeqIdle
  /\ AppIdle

NextShared ==
  \/ Tick /\ UNCHANGED appVars
  \/ \E i \in insts : PlayCall(i) /\ UNCHANGED appVars
  \/ \E i \in insts : Pause(i) /\ UNCHANGED appVars
  \/ \E i \in insts : Close(i) /\ UNCHANGED appVars
  \/ \E i \in insts : SourceEnded(i, 1) /\ UNCHANGED appVars
  \/ \E i \in insts : TimerFire(i) /\ UNCHANGED appVars

SpecShared == InitShared /\ [][NextShared]_vars

\* ------------------------------------------------ the instance registry
RegistryInputs ==
  [files |-> {0, 1, 2}, delays |-> {0}, fallbacks |-> {4},
   durations |-> {<<>>, <<3>>, <<2, 4>>},
   ctxStart |-> {"suspended", "running"}, decodeMayFail |-> TRUE,
   horizon |-> 0]

\* three instance slots, no instance created yet
InitRegistry ==
  /\ now = 0
  /\ audioSupported = TRUE
  /\ sharedContext = "null"
  /\ contextsCreated = 0
  /\ ctxTime = 0
  /\ latencyMs = 0
  /\ activeInstanceCount = 0
  /\ insts = {1, 2, 3}
  /\ inputs = RegistryInputs
  /\ mgr = [i \in insts |-> Absent]
  /\ orphanTimers = [i \in insts |-> <<>>]
  /\ pendingPlay = [i \in insts |-> 0]
  /\ sess = [i \in insts |-> NoSession]
  /\ lastOp = NoOp
  /\ SeqIdle
  /\ AppIdle

\* creations, with decoding that succeeds or fails, and disposals
NextRegistry ==
  \/ \E i \in insts : Construct(i) /\ UNCHANGED appVars
  \/ \E i \in insts : DecodeDone(i) /\ UNCHANGED appVars
  \/ \E i \in insts : DecodeFail(i) /\ UNCHANGED appVars
  \/ \E i \in insts : Close(i) /\ UNCHANGED appVars

SpecRegistry == InitRegistry /\ [][NextRegistry]_vars

\* ------------------------------------------------------------- the volume
\* the values assigned to volume, in 1 / VolumeDen steps: below 0, inside
\* [0, 1] and above 1
Volumes == (-1)..(VolumeDen + 1)

VolumeInputs ==
  [files |-> {0, 1}, delays |-> {0}, fallbacks |-> {2},
   durations |-> {<<>>, <<2>>},
   ctxStart |-> {"suspended", "running"}, decodeMayFail |-> FALSE,
   horizon |-> 2]

\* one slot for a device-backed instance
InitVolume ==
  /\ now = 0
  /\ audioSupported = TRUE
  /\ sharedContext = "null"
  /\ contextsCreated = 0
  /\ ctxTime = 0
  /\ latencyMs = 0
  /\ activeInstanceCount = 0
  /\ insts = {1}
  /\ inputs = VolumeInputs
  /\ mgr = [i \in insts |-> Absent]
  /\ orphanTimers = [i \in insts |-> <<>>]
  /\ pendingPlay = [i \in insts |-> 0]
  /\ sess = [i \in insts |-> NoSession]
  /\ lastOp = NoOp
  /\ SeqIdle
  /\ AppIdle

NextVolume ==
  \/ Tick /\ UNCHANGED appVars
  \/ \E i \in insts : Construct(i) /\ UNCHANGED appVars
  \/ \E i \in insts : DecodeDone(i) /\ UNCHANGED appVars
  \/ \E i \in insts, v \in Volumes : SetVolume(i, v) /\ UNCHANGED appVars
  \/ \E i \in insts : PlayCall(i) /\ UNCHANGED appVars
  \/ \E i \in insts : PlayResume(i) /\ UNCHANGED appVars
  \/ \E i \in insts : Pause(i) /\ UNCHANGED appVars
  \/ \E i \in insts, num \in Percents : Seek(i, num) /\ UNCHANGED appVars
  \/ \E i \in insts : Close(i) /\ UNCHANGED appVars
  \/ \E i \in insts : SourceEnded(i, 1) /\ UNCHANGED appVars
  \/ \E i \in insts : TimerFire(i) /\ UNCHANGED appVars

SpecVolume == InitVolume /\ [][NextVolume]_vars

\* ------------------------------------------------------------ ChartPreview
DEFAULT_PROGRESS_INTERVAL_MS == 50

MaxPreviewTime == 100
FrameStepMs == 25

\* a slot that holds no ChartPreview.  progressAt, progressInOp, skipped and
\* op record what the preview did: the times of the latest two progress
\* events, whether the latest operation emitted one, whether a frame of the
\* animation loop was throttled since the latest one, and the latest operation
NoPreview ==
  [phase |-> "none", paused |-> TRUE, animationLoop |-> FALSE,
   progressIntervalMs |-> 0, lastProgressEmitTime |-> 0, listeners |-> FALSE,
   progressAt |-> <<>>, progressInOp |-> FALSE, skipped |-> FALSE, op |-> "none"]

\* ChartPreview.create: config.progressIntervalMs ?? DEFAULT_PROGRESS_INTERVAL_MS
\* (the optional value is <<>> or <<ms>>); the caller attaches its listeners
\* to the returned preview
ChartPreviewCreate(interval) ==
  [NoPreview EXCEPT !.phase = "live", !.listeners = TRUE,
                    !.progressIntervalMs =
                       IF interval = <<>> THEN DEFAULT_PROGRESS_INTERVAL_MS
                       ELSE interval[1]]

LatestTwo(log, t) == IF Len(log) < 2 THEN Append(log, t) ELSE <<log[2], t>>

animateFrame_Unthrottled(p, emit, wallNow) ==
  IF emit
  THEN [p EXCEPT !.lastProgressEmitTime = wallNow,
                 !.progressAt = LatestTwo(@, wallNow),
                 !.progressInOp = TRUE,
                 !.skipped = FALSE]
  ELSE [p EXCEPT !.progressInOp = FALSE]

\* animateFrame(emit): the render, then the throttled progress event
animateFrame(p, emit, wallNow) ==
  IF emit /\ wallNow - p.lastProgressEmitTime >= p.progressIntervalMs
  THEN [p EXCEPT !.lastProgressEmitTime = wallNow,
                 !.progressAt = LatestTwo(@, wallNow),
                 !.progressInOp = TRUE,
                 !.skipped = FALSE]
  ELSE [p EXCEPT !.progressInOp = FALSE,
                 !.skipped = @ \/ emit]

\* togglePaused(): "paused = !paused" runs once the manager call has returned
togglePausedDone(p, startLoop) ==
  [p EXCEPT !.animationLoop = startLoop, !.paused = ~p.paused,
            !.progressInOp = FALSE, !.op = "toggle"]

\* ChartPreview.togglePaused().  With a suspended device the play() call waits
\* for resume() and the rest of togglePaused runs in PreviewPlayResumed.
PreviewTogglePaused(i) ==
  /\ preview[i].phase = "live"
  /\ IF preview[i].paused
     THEN /\ PlayCall(i) \/ SilentPlay(i)
          /\ preview' = IF mgr[i].kind = "audio" /\ sharedContext = "suspended"
                        THEN [preview EXCEPT ![i].progressInOp = FALSE,
                                             ![i].op = "toggleCall"]
                        ELSE [preview EXCEPT ![i] = togglePausedDone(@, TRUE)]
     ELSE /\ Pause(i) \/ SilentPause(i)
          /\ preview' = [preview EXCEPT ![i] = togglePausedDone(@, FALSE)]

\* resume() resolved: play() completes and togglePaused() continues
PreviewPlayResumed(i) ==
  /\ preview[i].phase # "none"
  /\ PlayResume(i)
  /\ preview' = [preview EXCEPT ![i] = togglePausedDone(@, TRUE)]

\* resume() rejected: togglePaused() rejects before "paused = !paused"
PreviewPlayFailed(i) ==
  /\ preview[i].phase # "none"
  /\ PlayResumeFail(i)
  /\ preview' = [preview EXCEPT ![i].progressInOp = FALSE,
                                ![i].op = "toggleFailed"]

\* ChartPreview.seek(num / PercentDen)
PreviewSeek(i, num) ==
  /\ preview[i].phase = "live"
  /\ Seek(i, num) \/ SilentSeek(i, num)
  /\ preview' = [preview EXCEPT ![i] =
                   [animateFrame(@, FALSE, now) EXCEPT !.animationLoop = FALSE,
                                                       !.paused = TRUE,
                                                       !.op = "seek"]]

\* ChartPreview.resize()
PreviewResize(i) ==
  /\ preview[i].phase = "live"
  /\ preview' = [preview EXCEPT ![i] =
                   [(IF @.paused THEN animateFrame(@, FALSE, now) ELSE @)
                      EXCEPT !.progressInOp = FALSE, !.op = "resize"]]
  /\ lastOp' = Op("resize", i, Paused(i))
  /\ UNCHANGED <<seqVars, now, audioSupported, contextsCreated, sharedContext, ctxTime,
                 latencyMs, activeInstanceCount, insts, inputs, mgr, orphanTimers,
                 pendingPlay, sess>>

\* one callback of the animation loop: animateFrame()
PreviewFrame(i) ==
  /\ preview[i].animationLoop
  /\ preview' = [preview EXCEPT ![i] = [animateFrame(@, TRUE, now) EXCEPT !.op = "frame"]]
  /\ lastOp' = Op("frame", i, Paused(i))
  /\ UNCHANGED <<seqVars, now, audioSupported, contextsCreated, sharedContext, ctxTime,
                 latencyMs, activeInstanceCount, insts, inputs, mgr, orphanTimers,
                 pendingPlay, sess>>

\* ChartPreview.dispose()
PreviewDispose(i) ==
  /\ preview[i].phase = "live"
  /\ Close(i) \/ SilentClose(i)
  /\ preview' = [preview EXCEPT ![i].phase = "disposed",
                                ![i].listeners = FALSE,
                                ![i].animationLoop = FALSE,
                                ![i].progressInOp = FALSE,
                                ![i].op = "dispose"]

\* the time between two animation frames passes; due timeouts and ended
\* events are delivered first
Elapse ==
  /\ now + FrameStepMs <= MaxPreviewTime
  /\ \A i \in insts : ~TimerDue(i)
  /\ \A i \in insts : \A k \in 1..Len(mgr[i].audioSources) : ~SourceDue(mgr[i], k)
  /\ now' = now + FrameStepMs
  /\ ctxTime' = IF sharedContext = "running" THEN ctxTime + FrameStepMs ELSE ctxTime
  /\ lastOp' = Op("tick", 0, TRUE)
  /\ UNCHANGED <<seqVars, appVars, audioSupported, contextsCreated, sharedContext, latencyMs,
                 activeInstanceCount, insts, inputs, mgr, orphanTimers, pendingPlay,
                 sess>>

PreviewLengthMs == 50

ProgressIntervals == {<<>>, <<25>>}

PreviewInputs ==
  [files |-> {0, 1}, delays |-> {0}, fallbacks |-> {PreviewLengthMs},
   durations |-> {<<>>, <<PreviewLengthMs>>},
   ctxStart |-> {"suspended", "running"}, decodeMayFail |-> FALSE,
   horizon |-> 0]

\* the manager ChartPreview.create obtains: AudioManager.create when the
\* environment has an AudioContext, SilentAudioManager.create otherwise
CreatedManager(supported, durations, delay, length) ==
  IF supported
  THEN [decodeAudioFiles(AudioManagerNew(Len(durations), delay, length), durations)
          EXCEPT !.phase = "ready", !.listeners = TRUE, !.audioCtx = 1]
  ELSE [SilentAudioManagerCreate(delay, length) EXCEPT !.listeners = TRUE]

\* one ChartPreview was created and its container is on the page
InitPreview ==
  /\ now = 0
  /\ audioSupported \in BOOLEAN
  /\ sharedContext \in (IF audioSupported THEN PreviewInputs.ctxStart ELSE {"null"})
  /\ contextsCreated = (IF audioSupported THEN 1 ELSE 0)
  /\ ctxTime = 0
  /\ latencyMs = 0
  /\ activeInstanceCount = (IF audioSupported THEN 1 ELSE 0)
  /\ insts = {1}
  /\ inputs = PreviewInputs
  /\ \E d \in (IF audioSupported THEN PreviewInputs.durations ELSE {<<>>}) :
       mgr = [i \in insts |-> CreatedManager(audioSupported, d, 0, PreviewLengthMs)]
  /\ orphanTimers = [i \in insts |-> <<>>]
  /\ pendingPlay = [i \in insts |-> 0]
  /\ sess = [i \in insts |-> NoSession]
  /\ lastOp = NoOp
  /\ SeqIdle
  /\ \E interval \in ProgressIntervals :
       preview = [i \in insts |-> ChartPreviewCreate(interval)]
  /\ player = <<>>

NextPreview ==
  \/ Elapse
  \/ \E i \in insts : PreviewTogglePaused(i) /\ UNCHANGED player
  \/ \E i \in insts : PreviewPlayResumed(i) /\ UNCHANGED player
  \/ \E i \in insts, num \in Percents : PreviewSeek(i, num) /\ UNCHANGED player
  \/ \E i \in insts : PreviewResize(i) /\ UNCHANGED player
  \/ \E i \in insts : PreviewFrame(i) /\ UNCHANGED player
  \/ \E i \in insts : PreviewDispose(i) /\ UNCHANGED player
  \/ \E i \in insts : SourceEnded(i, 1) /\ UNCHANGED appVars
  \/ \E i \in insts : TimerFire(i) /\ UNCHANGED appVars
  \/ \E i \in insts : SilentTimerFire(i) /\ UNCHANGED appVars
  \/ \E i \in insts, k \in 1..MaxOrphans : OrphanTimerFire(i, k) /\ UNCHANGED appVars

SpecPreview == InitPreview /\ [][NextPreview]_vars

\* --------------------------------- the two managers under the same calls
TwinDevice == 1

TwinSilent == 2

TwinInputs ==
  [files |-> {0}, delays |-> {-2, 0, 2}, fallbacks |-> {4},
   durations |-> {<<>>},
   ctxStart |-> {"running"}, decodeMayFail |-> FALSE,
   horizon |-> MaxTime]

\* ChartPreview.create called with the same configuration (no audio files)
\* in an environment with an AudioContext and in one without
InitTwin ==
  /\ now = 0
  /\ audioSupported = TRUE
  /\ sharedContext = "running"
  /\ contextsCreated = 1
  /\ ctxTime = 0
  /\ latencyMs = 0
  /\ activeInstanceCount = 1
  /\ insts = {TwinDevice, TwinSilent}
  /\ inputs = TwinInputs
  /\ \E delay \in TwinInputs.delays, length \in TwinInputs.fallbacks :
       mgr = [i \in insts |-> CreatedManager(i = TwinDevice, <<>>, delay, length)]
  /\ orphanTimers = [i \in insts |-> <<>>]
  /\ pendingPlay = [i \in insts |-> 0]
  /\ sess = [i \in insts |-> NoSession]
  /\ lastOp = NoOp
  /\ SeqIdle
  /\ AppIdle

TwinFrame ==
  UNCHANGED <<seqVars, appVars, now, audioSupported, sharedContext, contextsCreated,
              ctxTime, latencyMs, activeInstanceCount, insts, inputs, pendingPlay>>

\* play() on both managers
TwinPlay ==
  /\ \A i \in insts : ~TimerDue(i)
  /\ mgr[TwinSilent].endEventTimeout.st = "pending"
       => Len(orphanTimers[TwinSilent]) < MaxOrphans
  /\ mgr' = [mgr EXCEPT ![TwinDevice] = play(@, ctxTime, now, latencyMs),
                        ![TwinSilent] = silentPlay(@, now)]
  /\ orphanTimers' =
       IF mgr[TwinSilent].endEventTimeout.st = "pending"
       THEN [orphanTimers EXCEPT ![TwinSilent] =
               Append(@, mgr[TwinSilent].endEventTimeout.due)]
       ELSE orphanTimers
  /\ sess' = [sess EXCEPT
                ![TwinDevice] = SessionStart(@, mgr[TwinDevice]._isPaused,
                                             mgr[TwinDevice].lastSeekChartTimeMs, now),
                ![TwinSilent] = SessionStart(@, mgr[TwinSilent].isPaused,
                                             mgr'[TwinSilent].lastResumeChartTimeMs, now)]
  /\ lastOp' = Op("play", 0, mgr[TwinDevice]._isPaused)
  /\ TwinFrame

\* pause() on both managers
TwinPause ==
  /\ \A i \in insts : ~TimerDue(i)
  /\ mgr' = [mgr EXCEPT ![TwinDevice] = pause(@, ctxTime, latencyMs),
                        ![TwinSilent] = silentPause(@, now)]
  /\ sess' = [sess EXCEPT
                ![TwinDevice] = SessionPause(@, mgr[TwinDevice]._isPaused),
                ![TwinSilent] = SessionPause(@, mgr[TwinSilent].isPaused)]
  /\ lastOp' = Op("pause", 0, mgr[TwinDevice]._isPaused)
  /\ UNCHANGED orphanTimers
  /\ TwinFrame

\* seek(num / PercentDen) on both managers
TwinSeek(num) ==
  /\ \A i \in insts : ~TimerDue(i)
  /\ SeekExact(TwinDevice, num) /\ SeekExact(TwinSilent, num)
  /\ (~mgr[TwinSilent].isPaused /\ mgr[TwinSilent].endEventTimeout.st = "pending")
       => Len(orphanTimers[TwinSilent]) < MaxOrphans
  /\ mgr' = [mgr EXCEPT ![TwinDevice] = seek(@, num, ctxTime),
                        ![TwinSilent] = silentSeek(@, num, now)]
  /\ orphanTimers' =
       IF ~mgr[TwinSilent].isPaused /\ mgr[TwinSilent].endEventTimeout.st = "pending"
       THEN [orphanTimers EXCEPT ![TwinSilent] =
               Append(@, mgr[TwinSilent].endEventTimeout.due)]
       ELSE orphanTimers
  /\ sess' = [sess EXCEPT
                ![TwinDevice] = SessionSeek(@, mgr[TwinDevice]._isPaused,
                                  (num * EndTime(TwinDevice)) \div PercentDen),
                ![TwinSilent] =
                   IF mgr[TwinSilent].isPaused
                   THEN SessionSeek(@, TRUE, (num * EndTime(TwinSilent)) \div PercentDen)
                   ELSE [SessionStart(@, FALSE, mgr'[TwinSilent].lastResumeChartTimeMs, now)
                           EXCEPT !.sought = "playing",
                                  !.seekTarget =
                                     (num * EndTime(TwinSilent)) \div PercentDen]]
  /\ lastOp' = Op("seek", 0, mgr[TwinDevice]._isPaused)
  /\ TwinFrame

NextTwin ==
  \/ Tick /\ UNCHANGED appVars
  \/ TwinPlay
  \/ TwinPause
  \/ \E num \in Percents : TwinSeek(num)
  \/ TimerFire(TwinDevice) /\ UNCHANGED appVars
  \/ SilentTimerFire(TwinSilent) /\ UNCHANGED appVars
  \/ \E k \in 1..MaxOrphans : OrphanTimerFire(TwinSilent, k) /\ UNCHANGED appVars

SpecTwin == InitTwin /\ [][NextTwin]_vars

\* ------------------------------------------------------- ChartPreviewPlayer
\* load requests a run makes; request r creates its ChartPreview in slot r
MaxLoads == 2

\* togglePlayPause / play / pause / seek / dispose calls a run makes
MaxCalls == 2

PlayerLengthMs == 1

\* the positions the page seeks to (initialSeekPercent of a load, the argument
\* of seek()), in units of 1 / PercentDen: the start and the end of the chart
PlayerSeeks == {0, PercentDen}

InFlight == {"fetch", "prepare", "create"}

\* a load that was not requested.  outcome, errors, before and after record
\* how the request settled (the player-error events it dispatched, _state
\* before and after its last step); superseded, installedLate and stateLate
\* record a later loadFromUrl call made while this one was in flight and what
\* this request did after that call.
NoRequest ==
  [kind |-> "none", phase |-> "none", signal |-> "own", seek |-> 0,
   outcome |-> "none", errors |-> 0, before |-> "idle", after |-> "idle",
   superseded |-> FALSE, installedLate |-> FALSE, stateLate |-> FALSE]

\* the element after its constructor.  aborted and callerAborted are the
\* requests whose AbortController, or whose caller-supplied signal, was
\* aborted; micro is the continuation that runs before any other task;
\* waiting holds the continuations behind a togglePaused() that awaits
\* resume(); errors counts player-error events, rejected holds the public
\* operations whose promise rejected and rejectedIn the state they left.
ChartPreviewPlayerNew ==
  [_state |-> "idle", chartPreview |-> 0, _currentAbortController |-> 0,
   aborted |-> {}, callerAborted |-> {}, timestampInterval |-> FALSE,
   micro |-> <<>>, waiting |-> <<>>, started |-> 0,
   reqs |-> [r \in 1..MaxLoads |-> NoRequest], calls |-> 0, errors |-> 0,
   rejected |-> {}, rejectedIn |-> "idle", restarted |-> FALSE,
   _isSeeking |-> FALSE, _wasPlayingBeforeSeek |-> FALSE, disposedAt |-> -1,
   viaRelative |-> FALSE,
   lastEvent |-> [state |-> "idle", previousState |-> "idle"],
   chained |-> TRUE]

\* a continuation of a playback operation: what runs next (k), the preview
\* whose togglePaused() it follows (r), the seek position it carries (n)
Cont(k, r, n) == [k |-> k, r |-> r, n |-> n]

\* dispatchEvent(new CustomEvent("player-statechange", {detail})): lastEvent
\* is the detail of the latest event, chained whether every event so far
\* changed the state and started from the state the event before it announced
\* ("idle" before the first)
dispatchStateChange(p, detail) ==
  [p EXCEPT !.lastEvent = detail,
            !.chained = /\ @
                        /\ detail.previousState = p.lastEvent.state
                        /\ detail.state # detail.previousState]

setState_AlwaysDispatch(p, state) ==
  dispatchStateChange([p EXCEPT !._state = state],
                      [state |-> state, previousState |-> p._state])

setState(p, state) ==
  LET oldState == p._state
      q == [p EXCEPT !._state = state]
  IN  IF oldState # state
      THEN dispatchStateChange(q, [state |-> state, previousState |-> oldState])
      ELSE q

prepareForLoading(p) == setState(p, "loading")

handleLoadError_ReportsAbort(p, r, abortError) ==
  [setState(p, "error") EXCEPT !.errors = @ + 1, !.reqs[r].errors = @ + 1]

\* handleLoadError: an AbortError returns silently, anything else sets the
\* state to "error" and dispatches player-error
handleLoadError(p, r, abortError) ==
  IF abortError
  THEN p
  ELSE [setState(p, "error") EXCEPT !.errors = @ + 1, !.reqs[r].errors = @ + 1]

\* what a step of request r did after the request was superseded
Observe(p0, p1, r) ==
  [p1 EXCEPT !.reqs[r].installedLate =
               @ \/ (p0.reqs[r].superseded /\ p1.chartPreview = r
                     /\ p0.chartPreview # r),
             !.reqs[r].stateLate =
               @ \/ (p0.reqs[r].superseded /\ p1._state # p0._state)]

\* request r settles: its promise resolves
Settled(p0, p1, r, outcome) ==
  Observe(p0, [p1 EXCEPT !.reqs[r].phase = "done",
                         !.reqs[r].seek = 0,
                         !.reqs[r].outcome = outcome,
                         !.reqs[r].before = p0._state,
                         !.reqs[r].after = p1._state], r)

\* loadFromUrl's "this._currentAbortController = null", on both of its paths
clearController(p, r) ==
  IF p.reqs[r].kind = "url" THEN [p EXCEPT !._currentAbortController = 0] ELSE p

PlayerIdle == player.micro = <<>>

\* the signal request r's fetch listens to was aborted
Signalled(p, r) ==
  IF p.reqs[r].signal = "own" THEN r \in p.aborted ELSE r \in p.callerAborted

\* loadFromUrl up to "await fetchSngFile": the previous controller is
\* aborted, a new one is stored, the fetch listens to config.signal when the
\* caller gave one and to the new controller otherwise
LoadFromUrl(r, signal, initial) ==
  /\ PlayerIdle
  /\ r = player.started + 1 /\ r <= MaxLoads
  /\ player' =
       prepareForLoading(
         [player EXCEPT
            !.aborted = IF player._currentAbortController # 0
                        THEN @ \cup {player._currentAbortController} ELSE @,
            !._currentAbortController = r,
            !.started = r,
            !.reqs = [q \in DOMAIN @ |->
                        IF q = r
                        THEN [NoRequest EXCEPT !.kind = "url", !.phase = "fetch",
                                               !.signal = signal, !.seek = initial]
                        ELSE IF @[q].kind = "url" /\ @[q].phase \in InFlight
                             THEN [@[q] EXCEPT !.superseded = TRUE]
                             ELSE @[q]]])
  /\ UNCHANGED <<clockVars, seqVars, preview>>

\* the caller aborts the signal it passed as config.signal
CallerAbort(r) ==
  /\ PlayerIdle
  /\ player.reqs[r].signal = "caller"
  /\ player.reqs[r].phase \in InFlight
  /\ r \notin player.callerAborted
  /\ player' = [player EXCEPT !.callerAborted = @ \cup {r}]
  /\ UNCHANGED <<clockVars, seqVars, preview>>

\* fetchSngFile settles: AbortError when its signal was aborted, otherwise
\* the file (ok) or a network / HTTP error
FetchSettle(r, ok) ==
  /\ PlayerIdle
  /\ player.reqs[r].phase = "fetch"
  /\ player' =
       IF Signalled(player, r)
       THEN Settled(player,
                    handleLoadError(clearController(player, r), r, TRUE),
                    r, "aborted")
       ELSE IF ok
            THEN Observe(player, [player EXCEPT !.reqs[r].phase = "prepare"], r)
            ELSE Settled(player,
                         handleLoadError(clearController(player, r), r, FALSE),
                         r, "failed")
  /\ UNCHANGED <<clockVars, seqVars, preview>>

\* loadFromSngFile / loadFromChartFiles up to their first await (the two
\* differ in the name of the error context only)
LoadFromFiles(r, initial) ==
  /\ PlayerIdle
  /\ r = player.started + 1 /\ r <= MaxLoads
  /\ player' =
       prepareForLoading(
         [player EXCEPT !.started = r,
                        !.reqs[r] = [NoRequest EXCEPT !.kind = "files",
                                                      !.phase = "prepare",
                                                      !.seek = initial]])
  /\ UNCHANGED <<clockVars, seqVars, preview>>

\* loadChart up to ChartPreview.create: the previous preview is disposed and
\* the state is "loading"; the new preview's manager is constructed in the
\* same task (PlayerCreate)
loadChartBegin(p, r) ==
  [prepareForLoading(p) EXCEPT !.chartPreview = 0,
                                !.timestampInterval = FALSE,
                                !.reqs[r].phase = "create",
                                !.micro = <<Cont("create", r, 0)>>]

LoadChartBegin(p, r) ==
  /\ player' = Observe(player, loadChartBegin(p, r), r)
  /\ IF player.chartPreview # 0
     THEN PreviewDispose(player.chartPreview)
     ELSE UNCHANGED <<clockVars, seqVars, preview>>

\* extractSngFile and prepareChartData settle: the prepared chart (ok), and
\* loadChart begins, or an error (no chart file, no such track)
PrepareSettle(r, ok) ==
  /\ PlayerIdle
  /\ player.reqs[r].phase = "prepare"
  /\ IF ok
     THEN LoadChartBegin(player, r)
     ELSE /\ player' = Settled(player,
                               handleLoadError(clearController(player, r), r, FALSE),
                               r, "failed")
          /\ UNCHANGED <<clockVars, seqVars, preview>>

\* loadChart called by the page
LoadChart(r, initial) ==
  /\ PlayerIdle
  /\ r = player.started + 1 /\ r <= MaxLoads
  /\ LoadChartBegin([player EXCEPT !.started = r,
                                   !.reqs[r] = [NoRequest EXCEPT !.kind = "chart",
                                                                 !.seek = initial]], r)

\* ChartPreview.create up to "await AudioManager.create"
PlayerCreate(r) ==
  /\ player.micro = <<Cont("create", r, 0)>>
  /\ Construct(r)
  /\ player' = [player EXCEPT !.micro = <<>>]
  /\ UNCHANGED preview

\* the end of loadChart, and of the loader that called it
loadChartEnd(p, r) ==
  clearController(setState([p EXCEPT !.timestampInterval = TRUE], "ready"), r)

\* ChartPreview.create settles.  ok: the preview is stored and its listeners
\* attached, then the initial seek when initialSeekPercent > 0 (PlayerLoadSeek).
\* Otherwise loadChart's catch handles the error and the loader continues.
CreateSettle(r, ok) ==
  /\ PlayerIdle
  /\ player.reqs[r].phase = "create"
  /\ IF ok
     THEN /\ DecodeDone(r)
          /\ preview' = [preview EXCEPT ![r] = ChartPreviewCreate(<<>>)]
          /\ player' =
               IF player.reqs[r].seek > 0
               THEN Observe(player,
                            [player EXCEPT !.chartPreview = r,
                                           !.micro = <<Cont("loadSeek", r, 0)>>],
                            r)
               ELSE Settled(player,
                            loadChartEnd([player EXCEPT !.chartPreview = r], r),
                            r, "ok")
     ELSE /\ DecodeFail(r)
          /\ player' = Settled(player,
                               clearController(handleLoadError(player, r, FALSE), r),
                               r, "failed")
          /\ UNCHANGED preview

\* loadChart: "await this.chartPreview.seek(config.initialSeekPercent)"
PlayerLoadSeek(r) ==
  /\ player.micro = <<Cont("loadSeek", r, 0)>>
  /\ PreviewSeek(r, player.reqs[r].seek)
  /\ player' = Settled(player, loadChartEnd([player EXCEPT !.micro = <<>>], r),
                       r, "ok")

\* the rest of a playback operation once its togglePaused() has returned
afterToggle(p, k) ==
  IF k.k = "toPlaying"
  THEN setState([p EXCEPT !.timestampInterval = TRUE], "playing")
  ELSE IF k.k = "toPaused"
       THEN setState(p, "paused")
       ELSE IF k.k = "toEnded"
            THEN setState([p EXCEPT !.timestampInterval = FALSE], "ended")
            ELSE [p EXCEPT !.micro = <<k>>]

\* "await this.chartPreview.togglePaused()" in a playback operation of the
\* player, followed by continuation k; a play() that waits for resume()
\* leaves k waiting
ToggleThen(p, k) ==
  /\ PreviewTogglePaused(player.chartPreview)
  /\ player' =
       IF preview'[player.chartPreview].op = "toggleCall"
       THEN [p EXCEPT !.waiting = Append(@, k)]
       ELSE afterToggle(p, k)

\* togglePlayPause(), and play() / pause(), which call it in the states they
\* accept
RestartPosition_End == PercentDen

\* "Restart from beginning": await this.chartPreview.seek(0)
RestartPosition == 0

\* togglePlayPause(), play() and pause(); restarted tells whether the last
\* call that went on to togglePaused() came through the "ended" branch
TogglePlayPause(op) ==
  /\ PlayerIdle
  /\ player.calls < MaxCalls
  /\ player.chartPreview # 0
  /\ op = "play" => player._state \in {"paused", "ready", "ended"}
  /\ op = "pause" => player._state = "playing"
  /\ player._state \in {"ended", "paused", "ready", "playing"}
  /\ IF player._state = "ended"
     THEN /\ PreviewSeek(player.chartPreview, RestartPosition)
          /\ player' = [setState(player, "paused") EXCEPT
                          !.calls = @ + 1,
                          !.restarted = FALSE,
                          !.micro = <<Cont("toggle", player.chartPreview, 0)>>]
     ELSE ToggleThen(setState([player EXCEPT !.calls = @ + 1,
                                             !.restarted = FALSE], "loading"),
                     Cont(IF player._state = "playing" THEN "toPaused"
                          ELSE "toPlaying",
                          player.chartPreview, 0))

\* togglePlayPause() after its seek(0): the state is "paused"
PlayerToggleAfterSeek ==
  /\ Len(player.micro) = 1 /\ player.micro[1].k = "toggle"
  /\ ToggleThen(setState([player EXCEPT !.micro = <<>>, !.restarted = TRUE], "loading"),
                Cont("toPlaying", player.chartPreview, 0))

\* Math.max(0, Math.min(1, percent)), in 1 / PercentDen steps
clampPercent(num) == Max2(0, Min2(PercentDen, num))

\* seek(num / PercentDen)
seekFrom(num, relative) ==
  /\ PlayerIdle
  /\ player.calls < MaxCalls
  /\ player.chartPreview # 0
  /\ IF player._state = "playing"
     THEN ToggleThen([player EXCEPT !.calls = @ + 1, !.viaRelative = relative],
                     Cont("seek", player.chartPreview, clampPercent(num)))
     ELSE /\ PreviewSeek(player.chartPreview, clampPercent(num))
          /\ player' = setState([player EXCEPT !.calls = @ + 1,
                                               !.viaRelative = relative], "paused")

\* seek(num / PercentDen) called by the page
PlayerSeek(num) == seekFrom(num, FALSE)

\* seek() after its togglePaused(): "this.chartPreview.seek" throws when the
\* preview was disposed meanwhile
PlayerSeekAfterToggle ==
  /\ Len(player.micro) = 1 /\ player.micro[1].k = "seek"
  /\ IF player.chartPreview # 0
     THEN /\ PreviewSeek(player.chartPreview, player.micro[1].n)
          /\ player' = setState([player EXCEPT !.micro = <<>>], "paused")
     ELSE /\ player' = [player EXCEPT !.micro = <<>>,
                                      !.rejected = @ \cup {"seek"},
                                      !.rejectedIn = player._state]
          /\ UNCHANGED <<clockVars, seqVars, preview>>

\* onSeekStart (mousedown / touchstart on the seek bar): togglePaused() is
\* called and not awaited
OnSeekStart ==
  /\ PlayerIdle
  /\ ~player._isSeeking
  /\ IF player._state = "playing" /\ player.chartPreview # 0
     THEN /\ PreviewTogglePaused(player.chartPreview)
          /\ player' = setState([player EXCEPT !._isSeeking = TRUE,
                                               !._wasPlayingBeforeSeek = TRUE],
                                "seeking")
     ELSE /\ player' = [player EXCEPT !._isSeeking = TRUE,
                                      !._wasPlayingBeforeSeek =
                                         (player._state = "playing")]
          /\ UNCHANGED <<clockVars, seqVars, preview>>

\* onSeekInput (input on the seek bar), the bar at num / PercentDen
OnSeekInput(num) ==
  /\ PlayerIdle
  /\ player.chartPreview # 0
  /\ PreviewSeek(player.chartPreview, num)
  /\ player' = setState(player, "seeking")

\* onSeekEnd (mouseup / touchend, or the pointer back with no button down)
OnSeekEnd ==
  /\ PlayerIdle
  /\ player._isSeeking
  /\ IF player.chartPreview # 0 /\ player._wasPlayingBeforeSeek
     THEN ToggleThen([player EXCEPT !._isSeeking = FALSE,
                                    !._wasPlayingBeforeSeek = FALSE],
                     Cont("toPlaying", player.chartPreview, 0))
     ELSE /\ player' = setState([player EXCEPT !._isSeeking = FALSE], "paused")
          /\ UNCHANGED <<clockVars, seqVars, preview>>

\* seekRelative(deltaMs): the percent it passes to seek
relativePercent(currentMs, totalMs, deltaMs) ==
  clampPercent(((currentMs + deltaMs) * PercentDen) \div totalMs)

\* seekRelative(deltaMs)
SeekRelative(deltaMs) ==
  /\ player.chartPreview # 0
  /\ seekFrom(relativePercent(Reported(player.chartPreview),
                              EndTime(player.chartPreview), deltaMs), TRUE)

\* prepareChartData: the initial seek position it hands to loadChart, from
\* the caller's initialSeekPercent or else preview_start_time / audioLengthMs
seekPercent(initialSeekPercent, preview_start_time, audioLengthMs) ==
  IF initialSeekPercent > 0
  THEN initialSeekPercent
  ELSE IF preview_start_time # 0
       THEN (preview_start_time * PercentDen) \div audioLengthMs
       ELSE 0

FirstFor(waiting, i) ==
  CHOOSE n \in 1..Len(waiting) :
    waiting[n].r = i /\ \A m \in 1..(n - 1) : waiting[m].r # i

Without(waiting, n) ==
  [m \in 1..(Len(waiting) - 1) |-> IF m < n THEN waiting[m] ELSE waiting[m + 1]]

\* resume() resolved: togglePaused() returns and the operation continues
PlayerPlayResumed(i) ==
  /\ PlayerIdle
  /\ PreviewPlayResumed(i)
  /\ player' =
       IF \E n \in 1..Len(player.waiting) : player.waiting[n].r = i
       THEN LET n == FirstFor(player.waiting, i)
            IN  afterToggle([player EXCEPT !.waiting = Without(@, n)],
                            player.waiting[n])
       ELSE player

\* resume() rejected: play() and togglePaused() reject, and so does the
\* operation of the player that awaited them
PlayerPlayFailed(i) ==
  /\ PlayerIdle
  /\ PreviewPlayFailed(i)
  /\ player' =
       IF \E n \in 1..Len(player.waiting) : player.waiting[n].r = i
       THEN LET n == FirstFor(player.waiting, i)
            IN  [player EXCEPT !.waiting = Without(@, n),
                               !.rejected = @ \cup
                                  (IF player.waiting[n].k = "seek" THEN {"seek"}
                                   ELSE IF player.waiting[n].k = "toEnded" THEN {}
                                   ELSE {"togglePlayPause"}),
                               !.rejectedIn = player._state]
       ELSE player

\* the manager's end-of-chart timeout fires; its "end" event reaches the
\* listener loadChart attached, which runs in the same task (PlayerOnEnd)
PlayerTimerFire(i) ==
  /\ PlayerIdle
  /\ TimerFire(i)
  /\ player' = IF mgr[i].listeners /\ preview[i].listeners
               THEN [player EXCEPT !.micro = <<Cont("end", i, 0)>>]
               ELSE player
  /\ UNCHANGED preview

\* an audio source plays to its end; the last one emits "end" unless paused
PlayerSourceEnded(i) ==
  /\ PlayerIdle
  /\ SourceEnded(i, 1)
  /\ player' = IF /\ mgr[i].endedCount + 1 = Len(mgr[i].audioBuffers)
                  /\ ~mgr[i]._isPaused
                  /\ mgr[i].listeners /\ preview[i].listeners
               THEN [player EXCEPT !.micro = <<Cont("end", i, 0)>>]
               ELSE player
  /\ UNCHANGED preview

\* the "end" listener: "await this.chartPreview!.togglePaused()", then the
\* state is "ended"; with no preview the listener throws
PlayerOnEnd ==
  /\ Len(player.micro) = 1 /\ player.micro[1].k = "end"
  /\ IF player.chartPreview # 0
     THEN ToggleThen([player EXCEPT !.micro = <<>>],
                     Cont("toEnded", player.chartPreview, 0))
     ELSE /\ player' = [player EXCEPT !.micro = <<>>]
          /\ UNCHANGED <<clockVars, seqVars, preview>>

\* a millisecond passes; time is followed while a chart plays
PlayerTick ==
  /\ PlayerIdle
  /\ \E i \in insts : mgr[i].kind = "audio" /\ ~mgr[i]._isPaused
  /\ Tick
  /\ UNCHANGED appVars

\* dispose()
\* dispose(); disposedAt remembers how many loads had been requested
PlayerDispose ==
  /\ PlayerIdle
  /\ player.calls < MaxCalls
  /\ player' =
       setState([player EXCEPT
                   !.calls = @ + 1,
                   !.aborted = IF player._currentAbortController # 0
                               THEN @ \cup {player._currentAbortController} ELSE @,
                   !._currentAbortController = 0,
                   !.timestampInterval = FALSE,
                   !._isSeeking = FALSE,
                   !._wasPlayingBeforeSeek = FALSE,
                   !.disposedAt = player.started,
                   !.chartPreview = 0],
                "idle")
  /\ IF player.chartPreview # 0
     THEN PreviewDispose(player.chartPreview)
     ELSE UNCHANGED <<clockVars, seqVars, preview>>

PlayerInputs ==
  [files |-> {0, 1}, delays |-> {0}, fallbacks |-> {PlayerLengthMs},
   durations |-> {<<>>, <<PlayerLengthMs>>},
   ctxStart |-> {"suspended"}, decodeMayFail |-> TRUE,
   horizon |-> PlayerLengthMs + 1]

\* a page with one chart-preview-player element and nothing loaded
InitPlayer ==
  /\ now = 0
  /\ audioSupported = TRUE
  /\ sharedContext = "null"
  /\ contextsCreated = 0
  /\ ctxTime = 0
  /\ latencyMs = 0
  /\ activeInstanceCount = 0
  /\ insts = 1..MaxLoads
  /\ inputs = PlayerInputs
  /\ mgr = [i \in insts |-> Absent]
  /\ orphanTimers = [i \in insts |-> <<>>]
  /\ pendingPlay = [i \in insts |-> 0]
  /\ sess = [i \in insts |-> NoSession]
  /\ lastOp = NoOp
  /\ SeqIdle
  /\ preview = [i \in insts |-> NoPreview]
  /\ player = ChartPreviewPlayerNew

NextPlayer ==
  \/ \E r \in insts, sig \in {"own", "caller"}, initial \in PlayerSeeks :
       LoadFromUrl(r, sig, initial)
  \/ \E r \in insts : CallerAbort(r)
  \/ \E r \in insts, ok \in BOOLEAN : FetchSettle(r, ok)
  \/ \E r \in insts, initial \in PlayerSeeks : LoadFromFiles(r, initial)
  \/ \E r \in insts, ok \in BOOLEAN : PrepareSettle(r, ok)
  \/ \E r \in insts, initial \in PlayerSeeks : LoadChart(r, initial)
  \/ \E r \in insts : PlayerCreate(r)
  \/ \E r \in insts, ok \in BOOLEAN : CreateSettle(r, ok)
  \/ \E r \in insts : PlayerLoadSeek(r)
  \/ \E op \in {"toggle", "play", "pause"} : TogglePlayPause(op)
  \/ PlayerToggleAfterSeek
  \/ \E num \in PlayerSeeks : PlayerSeek(num)
  \/ PlayerSeekAfterToggle
  \/ \E i \in insts : PlayerPlayResumed(i)
  \/ \E i \in insts : PlayerPlayFailed(i)
  \/ \E i \in insts : PlayerTimerFire(i)
  \/ \E i \in insts : PlayerSourceEnded(i)
  \/ PlayerOnEnd
  \/ PlayerTick
  \/ PlayerDispose

SpecPlayer == InitPlayer /\ [][NextPlayer]_vars

\* ---------------------------------------------- the controls of one chart
\* one chart is loaded and then played, paused and sought through the
\* methods and the seek bar; nothing is disposed and no second load is made
NextControls ==
  \/ \E initial \in PlayerSeeks : LoadChart(1, initial)
  \/ PlayerCreate(1)
  \/ \E ok \in BOOLEAN : CreateSettle(1, ok)
  \/ PlayerLoadSeek(1)
  \/ \E op \in {"toggle", "play", "pause"} : TogglePlayPause(op)
  \/ PlayerToggleAfterSeek
  \/ \E num \in PlayerSeeks : PlayerSeek(num)
  \/ PlayerSeekAfterToggle
  \/ OnSeekStart
  \/ \E num \in PlayerSeeks : OnSeekInput(num)
  \/ OnSeekEnd
  \/ \E i \in insts : PlayerPlayResumed(i)
  \/ \E i \in insts : PlayerPlayFailed(i)
  \/ \E i \in insts : PlayerTimerFire(i)
  \/ \E i \in insts : PlayerSourceEnded(i)
  \/ PlayerOnEnd
  \/ PlayerTick

SpecControls == InitPlayer /\ [][NextControls]_vars

\* ------------------------------------------------- positions of one chart
\* initialSeekPercent values (in 1 / PercentDen steps), preview_start_time
\* values (ms, the song being PlayerLengthMs long), seek() arguments and
\* seekRelative() arguments (ms)
InitialSeeks == {0, PercentDen, 2 * PercentDen}
PreviewStarts == {0, PlayerLengthMs, 2 * PlayerLengthMs}
SeekArgs == {-PercentDen, 0, PercentDen, 2 * PercentDen}
SeekDeltas == {-2 * PlayerLengthMs, PlayerLengthMs, 2 * PlayerLengthMs}

\* one chart is loaded from files or through loadChart, with any initial
\* seek, and then sought and played
NextSeekRange ==
  \/ \E initial \in InitialSeeks, start \in PreviewStarts :
       LoadFromFiles(1, seekPercent(initial, start, PlayerLengthMs))
  \/ \E ok \in BOOLEAN : PrepareSettle(1, ok)
  \/ \E initial \in InitialSeeks : LoadChart(1, initial)
  \/ PlayerCreate(1)
  \/ \E ok \in BOOLEAN : CreateSettle(1, ok)
  \/ PlayerLoadSeek(1)
  \/ \E op \in {"toggle", "play", "pause"} : TogglePlayPause(op)
  \/ PlayerToggleAfterSeek
  \/ \E num \in SeekArgs : PlayerSeek(num)
  \/ \E deltaMs \in SeekDeltas : SeekRelative(deltaMs)
  \/ PlayerSeekAfterToggle
  \/ \E i \in insts : PlayerPlayResumed(i)
  \/ \E i \in insts : PlayerPlayFailed(i)
  \/ \E i \in insts : PlayerTimerFire(i)
  \/ \E i \in insts : PlayerSourceEnded(i)
  \/ PlayerOnEnd
  \/ PlayerTick

SpecSeekRange == InitPlayer /\ [][NextSeekRange]_vars

\* ------------------------------------------------------------------ claims
\* C1: after seek(p) on a device-backed instance, from Paused or Playing, the
\* reported chart time equals p * chartEndTimeMs and keeps that value, while
\* the device clock advances, until a play() takes effect.
C1_SeekSetsAndFreezesChartTime ==
  \A i \in insts :
    (mgr[i].kind = "audio" /\ sess[i].sought # "no")
      => Reported(i) = sess[i].seekTarget

C1_Witness ==
  \E i \in insts :
    /\ mgr[i].kind = "audio" /\ mgr[i].phase = "ready"
    /\ sess[i].sought = "playing"
    /\ sess[i].seekTarget > 0
    /\ lastOp.op = "tick"
    /\ ctxTime > mgr[i].lastAudioCtxCurrentTime

\* C2: with zero device latency, a pause() of a playing instance and a play()
\* of a paused instance both leave the reported chart time where it was, so
\* play / pause / play resumes at the frozen time after any number of cycles.
C2_NoDriftAcrossPauseCycles ==
  [][\A i \in insts :
       ( /\ latencyMs = 0
         /\ mgr[i].kind = "audio"
         /\ lastOp'.inst = i
         /\ \/ lastOp'.op = "play" /\ lastOp'.wasPaused
            \/ lastOp'.op = "pause" )
       => ReportedNext(i) = Reported(i)]_vars

C2_Witness ==
  \E i \in insts :
    /\ latencyMs = 0
    /\ mgr[i].kind = "audio"
    /\ lastOp = Op("play", i, TRUE)
    /\ sess[i].pauses = 2
    /\ Reported(i) > 0
    /\ ctxTime > Reported(i)

\* C3: for two successive queries at times t1 < t2 on the same EventSequence
\* with no cursor reset in the second, the second returns an index not below
\* the first.
C3_QueryMonotone ==
  (Len(trace) >= 2 /\ trace[Len(trace) - 1].t < trace[Len(trace)].t
     /\ ~trace[Len(trace)].reset)
    => trace[Len(trace)].result >= trace[Len(trace) - 1].result

C3_Witness ==
  /\ Len(trace) >= 2
  /\ Len(events) = MaxEvents
  /\ trace[Len(trace) - 1].t < trace[Len(trace)].t
  /\ ~trace[Len(trace)].reset
  /\ trace[Len(trace) - 1].result < trace[Len(trace) - 1].last
  /\ trace[Len(trace)].result > trace[Len(trace) - 1].result
  /\ trace[Len(trace)].result <= trace[Len(trace)].last

\* a query reports an event as open and already started when the index it
\* returns is one the cursor has scanned
ReportsActive(entry) == entry.result <= entry.last

SustainQueries == <<900, 1000, 1400, 1600>>

\* C4 as stated: on the single event {1000, 500}, successive queries at 900,
\* 1000, 1400, 1600 report it inactive, active, active, inactive.
C4_SustainAsStated ==
  (Len(trace) = 4 /\ [k \in 1..4 |-> trace[k].t] = SustainQueries)
    => [k \in 1..4 |-> ReportsActive(trace[k])] = <<FALSE, TRUE, TRUE, FALSE>>

\* C4 amended: on the single event {1000, 500}, successive queries at 900,
\* 1000, 1400, 1600 return 0, 0, 0, 1 and report it inactive (not yet
\* started), inactive (not yet started), active, inactive (closed).
C4_SustainStrictStart ==
  (Len(trace) = 4 /\ [k \in 1..4 |-> trace[k].t] = SustainQueries)
    => /\ [k \in 1..4 |-> ReportsActive(trace[k])] = <<FALSE, FALSE, TRUE, FALSE>>
       /\ [k \in 1..4 |-> trace[k].result] = <<0, 0, 0, 1>>

C4_Witness ==
  /\ events = <<SustainEvent>>
  /\ Len(trace) = 4
  /\ [k \in 1..4 |-> trace[k].t] = SustainQueries

ExtremeDelays == {-(10^9), 0, 10^9}

\* C5: chartEndTimeMs > 0 for startDelayMs in {-10^9, 0, 10^9} whenever the
\* configured audio length is positive: device-backed manager before and
\* after decoding, with or without buffers, and wall-clock manager.
C5_ChartEndPositive ==
  \A i \in insts :
    /\ ( /\ mgr[i].kind = "audio"
         /\ mgr[i].startDelayMs \in ExtremeDelays
         /\ mgr[i].fallbackAudioLengthMs > 0 )
       => chartEndTimeMs(mgr[i]) > 0
    /\ ( /\ mgr[i].kind = "silent"
         /\ mgr[i].startDelayMs \in ExtremeDelays
         /\ mgr[i].audioLengthMs > 0 )
       => silentChartEndTimeMs(mgr[i]) > 0

C5_Witness ==
  \E i \in insts, j \in insts :
    /\ mgr[i].kind = "audio" /\ mgr[i].phase = "ready"
    /\ mgr[i].startDelayMs = -(10^9)
    /\ mgr[i].fallbackAudioLengthMs > 0
    /\ Len(mgr[i].audioBuffers) = 0
    /\ mgr[j].kind = "audio" /\ mgr[j].phase = "ready"
    /\ mgr[j].startDelayMs = -(10^9)
    /\ mgr[j].fallbackAudioLengthMs > 0
    /\ Len(mgr[j].audioBuffers) = 2

\* C6: closing one instance leaves every other instance as it was: paused
\* flag, sync points, sources, gain node, end timer and reported chart time
\* are untouched, and the shared device keeps running.
C6_CloseLeavesOthers ==
  [][\A i \in insts :
       (lastOp'.op = "close" /\ lastOp'.inst = i)
       => /\ \A j \in insts \ {i} :
               /\ mgr'[j] = mgr[j]
               /\ orphanTimers'[j] = orphanTimers[j]
               /\ ReportedNext(j) = Reported(j)
          /\ sharedContext' = sharedContext
          /\ ctxTime' = ctxTime]_vars

C6_Witness ==
  \E i \in insts :
    /\ Cardinality(insts) = 3
    /\ lastOp = Op("close", i, FALSE)
    /\ \A j \in insts \ {i} :
         /\ mgr[j].phase = "ready" /\ ~mgr[j]._isPaused
         /\ mgr[j].gainNode
         /\ Reported(j) > 0
    /\ \E j \in insts \ {i} : mgr[j].endEventTimeout.st = "pending" \/ mgr[j].audioSources # <<>>

\* C7: a device-backed instance without buffers, started by play() from the
\* paused chart time T < chartEndTimeMs, emits end when chartEndTimeMs - T ms
\* of uninterrupted playback have elapsed, and not before.
C7_EndTimerAtChartEnd ==
  \A i \in insts :
    ( /\ mgr[i].kind = "audio" /\ mgr[i].listeners
      /\ Len(mgr[i].audioBuffers) = 0
      /\ sess[i].active /\ sess[i].fromPaused
      /\ sess[i].startChart < chartEndTimeMs(mgr[i]) )
    => IF sess[i].ends = 0
       THEN now - sess[i].startNow <= chartEndTimeMs(mgr[i]) - sess[i].startChart
       ELSE /\ sess[i].ends = 1
            /\ sess[i].endAt - sess[i].startNow
                 = chartEndTimeMs(mgr[i]) - sess[i].startChart

C7_Witness ==
  \E i \in insts :
    /\ mgr[i].kind = "audio" /\ mgr[i].listeners
    /\ Len(mgr[i].audioBuffers) = 0
    /\ sess[i].active /\ sess[i].fromPaused
    /\ sess[i].startChart > 0
    /\ sess[i].startChart < chartEndTimeMs(mgr[i])
    /\ sess[i].ends = 1
    /\ lastOp = Op("timer", i, FALSE)

C9_SeekLeavesPaused ==
  \A i \in insts : (lastOp.op = "seek" /\ lastOp.inst = i) => Paused(i)

\* C10: while an instance is paused its reported chart time does not change
\* as the clocks advance, and pause() on a paused instance leaves it unchanged.
C10_FrozenWhilePaused ==
  [][\A i \in insts :
       ( /\ mgr[i].phase = "ready"
         /\ Paused(i)
         /\ \/ lastOp'.op = "tick"
            \/ lastOp'.op = "pause" /\ lastOp'.inst = i )
       => ReportedNext(i) = Reported(i)]_vars

C10_Witness ==
  \E i \in insts :
    /\ mgr[i].kind = "audio"
    /\ lastOp = Op("pause", i, TRUE)
    /\ Reported(i) > 0
    /\ ctxTime > 0
    /\ sess[i].pauses > 0

\* the read offset play() computes: chart time at the last sync minus
\* startDelayMs (both fields are untouched while the sources exist)
OffsetAtSync(m) == m.lastSeekChartTimeMs - m.startDelayMs

\* C11: every buffer source of a device-backed instance was started at
\* (deviceNow, offset) when offset >= 0 and at (deviceNow + |offset|, 0) when
\* offset < 0, offset being the chart time at the last sync minus
\* startDelayMs; the start delay and the read offset are never both nonzero
\* and neither is negative.
C11_SourceStartSchedule ==
  \A i \in insts :
    mgr[i].kind = "audio" =>
      \A k \in 1..Len(mgr[i].audioSources) :
        LET src == mgr[i].audioSources[k]
            delay == src.when - mgr[i].lastAudioCtxCurrentTime
        IN /\ IF OffsetAtSync(mgr[i]) >= 0
              THEN delay = 0 /\ src.offset = OffsetAtSync(mgr[i])
              ELSE delay = -OffsetAtSync(mgr[i]) /\ src.offset = 0
           /\ delay >= 0 /\ src.offset >= 0
           /\ delay = 0 \/ src.offset = 0

C11_Witness ==
  \E i \in insts :
    /\ mgr[i].kind = "audio"
    /\ lastOp = Op("play", i, TRUE)
    /\ Len(mgr[i].audioSources) = 2
    /\ mgr[i].startDelayMs > 0
    /\ mgr[i].lastSeekChartTimeMs > 0
    /\ OffsetAtSync(mgr[i]) < 0
    /\ mgr[i].audioSources[1].when > ctxTime

\* C12: two consecutive progress events of one ChartPreview are at least
\* progressIntervalMs apart (50 ms when the configuration gives none),
\* whatever the number of frames in between, and the frame rendered by
\* seek() or resize() emits no progress event.
C12_ProgressThrottled ==
  \A i \in DOMAIN preview :
    /\ Len(preview[i].progressAt) = 2
         => preview[i].progressAt[2] - preview[i].progressAt[1]
              >= preview[i].progressIntervalMs
    /\ preview[i].op \in {"seek", "resize"} => ~preview[i].progressInOp

C12_Witness ==
  \E i \in DOMAIN preview :
    /\ preview[i].progressIntervalMs = DEFAULT_PROGRESS_INTERVAL_MS
    /\ Len(preview[i].progressAt) = 2
    /\ preview[i].progressAt[2] - preview[i].progressAt[1] = DEFAULT_PROGRESS_INTERVAL_MS
    /\ preview[i].skipped
    /\ preview[i].op = "resize"
    /\ preview[i].paused

\* C13: getActiveInstanceCount() is never negative: each registerInstance()
\* adds 1 and each unregisterInstance() subtracts 1, except at 0 where the
\* count stays 0.
C13_CountFlooredAtZero ==
  [][/\ activeInstanceCount' >= 0
     /\ lastOp'.op = "construct" => activeInstanceCount' = activeInstanceCount + 1
     /\ lastOp'.op = "close"
          => activeInstanceCount' = (IF activeInstanceCount = 0
                                     THEN 0
                                     ELSE activeInstanceCount - 1)]_vars

C13_Witness ==
  \E i \in insts, j \in insts, k \in insts :
    /\ lastOp = Op("close", i, TRUE)
    /\ activeInstanceCount = 0
    /\ mgr[i].phase = "closed"
    /\ mgr[j].phase = "ready"
    /\ mgr[k].phase = "failed"

\* C14: at most one AudioContext is ever constructed, every device-backed
\* instance holds that same context, and once it exists it is never closed or
\* replaced, also when the last instance is disposed and a new one is created.
C14_OneSharedDevice ==
  /\ contextsCreated <= 1
  /\ contextsCreated = 1 <=> sharedContext \in {"suspended", "running"}
  /\ \A i \in insts : mgr[i].kind = "audio" => mgr[i].audioCtx = 1

C14_Witness ==
  \E i \in insts, j \in insts :
    /\ mgr[i].phase = "closed"
    /\ lastOp = Op("construct", j, TRUE)
    /\ activeInstanceCount = 1
    /\ mgr[j].audioCtx = mgr[i].audioCtx
    /\ contextsCreated = 1

\* C16: a decode failure of an audio file is recoverable: the creation of a
\* device-backed instance never fails once it was constructed, it ends with
\* the instance ready (with the buffers that did decode, or none).
C16_DecodeFailureRecoverable ==
  \A i \in insts :
    (lastOp.inst = i /\ lastOp.op \in {"decode", "decodeFail"})
      => mgr[i].phase = "ready"

\* C15: under the same sequence of play / pause / seek calls the wall-clock
\* manager and the device-backed manager with zero buffers and zero latency
\* report, after every call, the same paused flag, the same chart time and
\* the same chartEndTimeMs, and between calls they have emitted end equally
\* often in the current session.
C15_SilentMatchesDeviceBacked ==
  /\ lastOp.op \in {"play", "pause", "seek"}
       => /\ Paused(TwinDevice) = Paused(TwinSilent)
          /\ Reported(TwinDevice) = Reported(TwinSilent)
          /\ EndTime(TwinDevice) = EndTime(TwinSilent)
  /\ (\A i \in insts : ~TimerDue(i))
       => (sess[TwinDevice].ends > 0) = (sess[TwinSilent].ends > 0)

\* C20: pause(), seek(p), play() issued in sequence on a device-backed
\* instance apply in that order: when play() has run the instance is playing
\* and reports p * chartEndTimeMs minus the device latency.
C20_PauseSeekPlayInOrder ==
  \A i \in insts :
    ( /\ mgr[i].kind = "audio"
      /\ lastOp = Op("play", i, TRUE)
      /\ sess[i].afterSeek )
    => /\ ~Paused(i)
       /\ Reported(i) = sess[i].startTarget - latencyMs

C20_Witness ==
  \E i \in insts :
    /\ mgr[i].kind = "audio"
    /\ lastOp = Op("play", i, TRUE)
    /\ sess[i].afterSeek
    /\ sess[i].pauses > 0
    /\ sess[i].startTarget > 0
    /\ sess[i].startTarget < chartEndTimeMs(mgr[i])
    /\ latencyMs > 0
    /\ Len(mgr[i].audioSources) > 0

\* C17: no public operation of the player rejects, and a load that failed
\* left the state "error" and dispatched exactly one player-error event.
C17_NoRejectionOneError ==
  /\ player.rejected = {}
  /\ \A r \in 1..MaxLoads :
       player.reqs[r].outcome = "failed" =>
         player.reqs[r].errors = 1 /\ player.reqs[r].after = "error"

\* C18: a load whose fetch rejected with AbortError dispatched no
\* player-error event and left the state as it was; a load that failed in
\* any other way dispatched a player-error event.
C18_AbortSilentOthersReported ==
  \A r \in 1..MaxLoads :
    /\ player.reqs[r].outcome = "aborted" =>
         player.reqs[r].errors = 0 /\ player.reqs[r].after = player.reqs[r].before
    /\ player.reqs[r].outcome = "failed" => player.reqs[r].errors >= 1

C18_Witness ==
  /\ player.reqs[1].outcome = "aborted"
  /\ player.reqs[2].outcome = "failed"
  /\ player.errors = 1

\* C19: a loadFromUrl request superseded by a later loadFromUrl never installs
\* its chart or changes the state afterwards, and the latest loadFromUrl
\* request, while in flight and not aborted, is the one the stored
\* AbortController cancels.
C19_SupersededLoadCancelled ==
  /\ \A q \in 1..MaxLoads :
       player.reqs[q].superseded =>
         ~player.reqs[q].installedLate /\ ~player.reqs[q].stateLate
  /\ \A r \in 1..MaxLoads :
       (/\ r = player.started
        /\ player.reqs[r].kind = "url"
        /\ player.reqs[r].phase \in InFlight
        /\ r \notin player.aborted)
         => player._currentAbortController = r

\* C21: the chart time an instance reports is never negative, for either
\* kind of manager and any device latency >= 0, also right after play() from
\* position 0 and after seek(0) then play().
C21_ChartTimeNonNegative ==
  \A i \in insts : mgr[i].phase = "ready" => Reported(i) >= 0

\* C22: after volume = v the getter returns v clamped to [0, 1] and the
\* stored value is the clamped value squared; nothing but the setter changes
\* the stored value; and a gain node that exists, also one created by a
\* later play(), has the stored value as its gain.
C22_VolumeLinearGainSquared ==
  [][\A i \in insts :
       /\ (lastOp'.op = "volume" /\ lastOp'.inst = i)
            => /\ getVolume(mgr'[i]) = clampVolume(lastOp'.arg)
               /\ mgr'[i]._volume = clampVolume(lastOp'.arg) * clampVolume(lastOp'.arg)
       /\ (mgr[i].kind = "audio" /\ ~(lastOp'.op = "volume" /\ lastOp'.inst = i))
            => mgr'[i]._volume = mgr[i]._volume
       /\ mgr'[i].gainNode => mgr'[i].gain = mgr'[i]._volume]_vars

C22_Witness ==
  \E i \in insts :
    /\ lastOp = Op("play", i, TRUE)
    /\ mgr[i].gainNode
    /\ mgr[i].gain = 1
    /\ getVolume(mgr[i]) = 1
    /\ sess[i].pauses > 0

\* C23: play() on an instance that is already Playing moves neither of its
\* sync points and leaves the chart time it reports as it was.
C23_PlayWhilePlayingIsNoOp ==
  [][\A i \in insts :
       (lastOp'.op = "play" /\ lastOp'.inst = i /\ ~lastOp'.wasPaused)
         => /\ ReportedNext(i) = Reported(i)
            /\ IF mgr[i].kind = "silent"
               THEN /\ mgr'[i].lastResumeChartTimeMs = mgr[i].lastResumeChartTimeMs
                    /\ mgr'[i].lastResumeClockTimeMs = mgr[i].lastResumeClockTimeMs
               ELSE /\ mgr'[i].lastSeekChartTimeMs = mgr[i].lastSeekChartTimeMs
                    /\ mgr'[i].lastAudioCtxCurrentTime = mgr[i].lastAudioCtxCurrentTime]_vars

\* the end timers of instance i that are armed and neither fired nor cleared
PendingEndTimers(i) ==
  (IF mgr[i].endEventTimeout.st = "pending" THEN 1 ELSE 0) + Len(orphanTimers[i])

\* C24: an instance without audio buffers, of either kind of manager, never
\* has more than one end timer pending, and has none pending while it is
\* paused or disposed.
C24_OneEndTimerNoneWhilePaused ==
  \A i \in insts :
    (mgr[i].phase \in {"ready", "closed"} /\ mgr[i].audioBuffers = <<>>)
      => /\ PendingEndTimers(i) <= 1
         /\ (Paused(i) \/ mgr[i].phase = "closed") => PendingEndTimers(i) = 0

\* events of the same type never overlap in time: an earlier one has ended
\* when a later one starts
NonOverlapping(evts) ==
  \A i, j \in DOMAIN evts :
    (i < j /\ evts[i].type = evts[j].type)
      => evts[i].msTime + evts[i].msLength <= evts[j].msTime

\* indexes (of the source, from 0) of the events active at t
ActiveAt(evts, t) ==
  {k - 1 : k \in {n \in DOMAIN evts :
                    evts[n].msTime < t /\ t < evts[n].msTime + evts[n].msLength}}

\* the number of events with msTime < t
StartedBefore(evts, t) == Cardinality({n \in DOMAIN evts : evts[n].msTime < t})

\* C25: over events whose same-type spans never overlap, every query of a
\* non-decreasing run of queries on a fresh EventSequence returns the
\* smallest index of an event with msTime < t < msTime + msLength, and the
\* number of events with msTime < t when there is no such event.
C25_ForwardQueriesReturnEarliestActive ==
  NonOverlapping(events)
    => \A k \in DOMAIN trace :
         trace[k].mono
           => trace[k].result =
                IF ActiveAt(events, trace[k].t) = {}
                THEN StartedBefore(events, trace[k].t)
                ELSE CHOOSE x \in ActiveAt(events, trace[k].t) :
                       \A y \in ActiveAt(events, trace[k].t) : x <= y

C25_Witness ==
  /\ NonOverlapping(events)
  /\ Len(events) = 2
  /\ Len(trace) = 2
  /\ trace[2].mono
  /\ trace[1].t < trace[2].t
  /\ trace[1].result = 0 /\ trace[1].last = 0
  /\ trace[2].result = 0 /\ trace[2].last = 1
  /\ ActiveAt(events, trace[2].t) = {0}

\* C26: a query at a time before the previous query's time starts from an
\* emptied cursor (table empty, lastPrecedingEventIndex = -1).
C26_BackwardJumpResets ==
  (Len(trace) >= 2 /\ trace[Len(trace)].t < trace[Len(trace) - 1].t)
    => (trace[Len(trace)].reset \/ trace[Len(trace) - 1].last = -1)

\* the highest index (of the source, from 0) among the positions in idx,
\* -1 when there is none
HighestBefore(idx) ==
  IF idx = {} THEN -1
  ELSE (CHOOSE x \in idx : \A y \in idx : y <= x) - 1

\* C27: after a query at t, whatever queries came before, the cursor is the
\* highest index with msTime < t (-1 if none) and the table has, for each
\* type, the highest index of that type with msTime < t.
C27_CursorIsHighestPreceding ==
  trace # <<>>
    => LET t == trace[Len(trace)].t
           before == {n \in DOMAIN events : events[n].msTime < t}
       IN /\ lastPrecedingEventIndex = HighestBefore(before)
          /\ \A ty \in NoteTypes :
               LET ofType == {n \in before : events[n].type = ty}
               IN IF ofType = {}
                  THEN ty \notin DOMAIN lastPrecedingEventIndexesOfType
                  ELSE /\ ty \in DOMAIN lastPrecedingEventIndexesOfType
                       /\ lastPrecedingEventIndexesOfType[ty] = HighestBefore(ofType)

\* C30: whatever was queried before, getEarliestActiveEventIndex(t) returns
\* what a fresh EventSequence over the same events returns for t.
C30_ResultIndependentOfHistory ==
  \A k \in DOMAIN trace :
    trace[k].result = getEarliestActiveEventIndex(events, EmptyCursor, trace[k].t).result

\* C28: with N >= 1 buffers an end notification is emitted only by the
\* completion of a source, only while the instance is playing, and only when
\* all N sources of the running session have completed; completions of an
\* earlier session and stopped sources do not count.
C28_EndOnlyWhenAllSourcesCompleted ==
  [][\A i \in insts :
       (mgr[i].kind = "audio" /\ Len(mgr[i].audioBuffers) >= 1
          /\ sess'[i].ends > sess[i].ends)
         => /\ lastOp' = Op("ended", i, FALSE)
            /\ ~mgr'[i]._isPaused
            /\ Len(mgr'[i].audioSources) = Len(mgr[i].audioBuffers)
            /\ \A k \in DOMAIN mgr'[i].audioSources : mgr'[i].audioSources[k].ended
            /\ mgr'[i].endedCount = Len(mgr[i].audioBuffers)]_vars

C28_Witness ==
  \E i \in insts :
    /\ mgr[i].kind = "audio" /\ Len(mgr[i].audioBuffers) = 2
    /\ lastOp = Op("ended", i, FALSE)
    /\ sess[i].ends = 1
    /\ sess[i].afterSeek
    /\ sess[i].pauses > 0
    /\ \A k \in DOMAIN mgr[i].audioSources : mgr[i].audioSources[k].ended

\* C29: togglePlayPause() or play() in state "ended" first seeks the chart
\* to 0 (the player is then "paused"), and then starts it: the player ends
\* in state "playing" with the chart playing and its chart time at 0.
C29_EndedRestartsFromBeginning ==
  [][LET c == player.chartPreview
     IN /\ (player.micro = <<>> /\ player'.micro = <<Cont("toggle", c, 0)>>)
             => /\ player._state = "ended"
                /\ lastOp' = Op("seek", c, Paused(c))
                /\ mgr'[c].lastSeekChartTimeMs = 0
                /\ ReportedNext(c) = 0
                /\ player'._state = "paused"
        /\ (Len(player.micro) = 1 /\ player.micro[1].k = "toggle")
             => /\ player'._state = "playing"
                /\ lastOp' = Op("play", c, TRUE)
                /\ ~preview'[c].paused
                /\ ~mgr'[c]._isPaused
                /\ mgr'[c].lastSeekChartTimeMs = 0
                /\ ReportedNext(c) = 0]_vars

C29_Witness ==
  /\ player.restarted
  /\ player._state = "playing"
  /\ player.micro = <<>>
  /\ lastOp = Op("play", player.chartPreview, TRUE)
  /\ sess[player.chartPreview].afterSeek
  /\ Reported(player.chartPreview) = 0
  /\ now > 0

\* C31: for any sorted event list, same-type overlaps included, no event
\* that is sustained at the query time t (msTime < t < msTime + msLength) has
\* an index below the one getEarliestActiveEventIndex(t) returns.
C31_NoSustainedEventBelowResult ==
  \A k \in DOMAIN trace :
    \A i \in ActiveAt(events, trace[k].t) : i >= trace[k].result

\* C32: after updateDisplayedNotes(t), when no earlier call jumped back by
\* the highway duration or more, the displayed set has every index from
\* getEarliestActiveEventIndex(t) on whose note starts before t + 1500 and
\* has a material, no index below it, and no note starting after t + 1500.
C32_DisplayedNotesAreTheWindow ==
  (trace # <<>> /\ trace[Len(trace)].near)
    => LET t == trace[Len(trace)].t
           start == trace[Len(trace)].result
       IN /\ \A i \in 0..(Len(events) - 1) :
               (i >= start /\ events[i + 1].msTime < t + HIGHWAY_DURATION_MS
                  /\ events[i + 1].type \in noteMaterials)
                 => i \in noteGroups
          /\ \A i \in noteGroups :
               i >= start /\ events[i + 1].msTime <= t + HIGHWAY_DURATION_MS

\* no player operation is suspended at an await: no continuation is queued,
\* no play() waits for the device and no load is under way
PlayerQuiescent ==
  /\ player.micro = <<>>
  /\ player.waiting = <<>>
  /\ \A i \in insts : pendingPlay[i] = 0
  /\ \A r \in DOMAIN player.reqs : player.reqs[r].phase \notin InFlight

\* C33: whenever no player operation is in flight, the player is "playing"
\* exactly when its ChartPreview is unpaused, and the ChartPreview's paused
\* flag equals its audio manager's.
C33_PlayerPreviewManagerAgree ==
  PlayerQuiescent
    => IF player.chartPreview = 0
       THEN player._state # "playing"
       ELSE /\ (player._state = "playing") <=> ~preview[player.chartPreview].paused
            /\ preview[player.chartPreview].paused = Paused(player.chartPreview)

\* C34: from dispose() until the next load request the player is "idle" with
\* no chart preview, no preview runs its animation loop and no manager has
\* audio sources or is playing, also when a load or a play() was suspended
\* at an await when dispose() was called.
C34_DisposedStaysIdle ==
  (player.disposedAt = player.started)
    => /\ player._state = "idle"
       /\ player.chartPreview = 0
       /\ \A i \in insts :
            /\ ~preview[i].animationLoop
            /\ mgr[i].audioSources = <<>>
            /\ mgr[i].phase # "absent" => Paused(i)

\* C35: once every load request made so far has settled, and no playback
\* call or dispose() was made, the player is "ready", "error" or "idle": a
\* settled load does not leave it at "loading", also when its fetch was
\* aborted through the caller's AbortSignal.
C35_SettledLoadLeavesLoading ==
  (/\ player.started > 0
   /\ player.calls = 0
   /\ player.micro = <<>>
   /\ \A r \in DOMAIN player.reqs : player.reqs[r].phase \notin InFlight)
    => player._state \in {"ready", "error", "idle"}

\* C36: every ChartPreview a load has created is the player's current one
\* or has been disposed, so at most one is undisposed at any time.
C36_OneLivePreview ==
  \A i \in insts : preview[i].phase = "live" => player.chartPreview = i

\* C37: getActiveInstanceCount() equals the number of device-backed
\* instances constructed (decoded or not) and not yet disposed, also after
\* closeAudio() was called twice on one instance.
C37_CountIsLiveInstances ==
  activeInstanceCount =
    Cardinality({i \in insts : /\ mgr[i].kind = "audio"
                               /\ mgr[i].phase \in {"constructed", "ready", "failed"}})

\* C38: when an instance with at least one decoded buffer emits its end
\* notification, the chart time it reports has reached chartEndTimeMs, up
\* to the device latency, for every start delay and fallback length.
C38_EndFiresAtChartEnd ==
  [][\A i \in insts :
       (mgr[i].kind = "audio" /\ Len(mgr[i].audioBuffers) >= 1
          /\ sess'[i].ends > sess[i].ends)
         => ReportedNext(i) + latencyMs' >= chartEndTimeMs(mgr'[i])]_vars

\* C39: when the player is "ready" after a load, or "paused" after seek() or
\* seekRelative(), 0 <= currentTimeMs <= durationMs, whatever
\* initialSeekPercent, preview_start_time and seek arguments were given.
C39_CurrentTimeWithinDuration ==
  (player.chartPreview # 0 /\ player.micro = <<>>
     /\ player._state \in {"ready", "paused"})
    => /\ 0 <= Reported(player.chartPreview)
       /\ Reported(player.chartPreview) <= EndTime(player.chartPreview)

\* C40: the player-statechange events form a chain.  Every event changes the
\* state (its detail.state differs from its detail.previousState), its
\* detail.previousState is the detail.state of the event before it ("idle"
\* for the first), and the state of the player is always the detail.state of
\* the latest event ("idle" before any), so no change goes without an event.
C40_StateChangeEventsChain ==
  /\ player.chained
  /\ player.lastEvent.state = player._state
  /\ player.lastEvent.state # player.lastEvent.previousState
       \/ player.lastEvent = [state |-> "idle", previousState |-> "idle"]

\* a same-state setState ("paused" again, after a seek while paused) has
\* happened after at least two events
C40_Witness ==
  /\ player._state = "paused"
  /\ lastOp.op = "seek"
  /\ player.lastEvent = [state |-> "paused", previousState |-> "playing"]
  /\ player.chained

====
